---------------------------- MODULE Spec2Model ----------------------------
(***************************************************************************)
(* Route-optimisation engine for the travelling-salesman problem:          *)
(* cost model (src/src/utils.py), constructive heuristics and full 2-opt   *)
(* (src/src/solver.py), genetic operators and the genetic driver           *)
(* (src/src/genetico.py), shift / 2-opt moves (src/src/memetico.py).       *)
(*                                                                         *)
(* Python lists are sequences; the helpers At / PySlice keep the source's  *)
(* 0-based indices.  float('inf') is the integer Inf, larger than every    *)
(* finite cost the bounded matrices can produce.  A fitness 1/(custo+1) is *)
(* the exact rational <<numerator, denominator>>.  Each random draw of the *)
(* source is a nondeterministic choice over the values the draw can take.  *)
(***************************************************************************)
EXTENDS Integers, Sequences, FiniteSets, TLC

VARIABLES
    pc,                     \* position of the running operation
    op,                     \* operator / method selected for this run
    matriz_distancias,      \* the cost matrix (read-only during a solve)
    \* --- a mutation call
    rota,                   \* the route handed to the operation
    probabilidade_mutacao,  \* numerator of the probability, over Resolution
    sorteio,                \* numerator of random.random(), over Resolution
    pos1, pos2,             \* positions drawn by mutacao_swap
    origem, destino,        \* positions drawn by mutacao_shift
    rota_mutada,            \* the route the operation returns
    \* --- a crossover call
    pai1, pai2,             \* parents
    ponto1, ponto2,         \* cut points drawn by the crossover
    filho1, filho2,         \* children
    \* --- a selection call
    populacao_avaliada,     \* ranked list of <<fitness, rota>>
    num_pais,               \* number of parents asked for
    tamanho_torneio,        \* participants of one tournament
    pais_selecionados,      \* parents selected so far
    contador,               \* iterations done of 'for _ in range(num_pais)'
    \* --- cost model
    custo, fitness,         \* results of calcular_custo_rota / calcular_fitness
    \* --- full 2-opt local search
    melhor_rota, melhor_custo, melhoria, idx_i, idx_j,
    \* --- genetic driver
    params,                 \* the keyword arguments of algoritmo_genetico
    populacao, nova_populacao, geracao,
    melhor_custo_global, melhor_rota_global, historico_fitness,
    excecao,                \* the exception that left the driver, or "none"
    \* --- constructive heuristics and the memetic local searches
    cidade_inicial,         \* start of vizinho_mais_proximo
    vertice_inicial,        \* start of insercao_mais_barata
    r_estrela, melhor_pos,  \* city and position of its last insertion
    cidade_inicial_fixa     \* the city a local search keeps at position 0

envVars == <<matriz_distancias>>
heurVars == <<cidade_inicial, vertice_inicial, cidade_inicial_fixa, r_estrela, melhor_pos>>
mutVars == <<rota, probabilidade_mutacao, sorteio, pos1, pos2, origem, destino, rota_mutada>>
cxVars  == <<pai1, pai2, ponto1, ponto2, filho1, filho2>>
selVars == <<populacao_avaliada, num_pais, tamanho_torneio, pais_selecionados, contador>>
costVars == <<custo, fitness>>
optVars == <<melhor_rota, melhor_custo, melhoria, idx_i, idx_j>>
gaVars  == <<params, populacao, nova_populacao, geracao,
             melhor_custo_global, melhor_rota_global, historico_fitness, excecao>>

vars == <<pc, op, envVars, heurVars, mutVars, cxVars, selVars, costVars, optVars, gaVars>>

\* values of the variables an operation does not use
EnvIdle == matriz_distancias = <<>>

HeurIdle ==
    /\ cidade_inicial = 0 /\ vertice_inicial = 0 /\ cidade_inicial_fixa = 0
    /\ r_estrela = -1 /\ melhor_pos = -1

MutIdle ==
    /\ rota = <<>> /\ probabilidade_mutacao = 0 /\ sorteio = 0
    /\ pos1 = 0 /\ pos2 = 0 /\ origem = 0 /\ destino = 0 /\ rota_mutada = <<>>

CxIdle ==
    /\ pai1 = <<>> /\ pai2 = <<>> /\ ponto1 = 0 /\ ponto2 = 0
    /\ filho1 = <<>> /\ filho2 = <<>>

SelIdle ==
    /\ populacao_avaliada = <<>> /\ num_pais = 0 /\ tamanho_torneio = 0
    /\ pais_selecionados = <<>> /\ contador = 0

CostIdle == custo = 0 /\ fitness = <<0, 1>>

OptIdle ==
    /\ melhor_rota = <<>> /\ melhor_custo = 0 /\ melhoria = FALSE
    /\ idx_i = 0 /\ idx_j = 0

GaIdle ==
    /\ params = <<>> /\ populacao = <<>> /\ nova_populacao = <<>> /\ geracao = 0
    /\ melhor_custo_global = 0 /\ melhor_rota_global = <<>> /\ historico_fitness = <<>>
    /\ excecao = "none"

(***************************************************************************)
(* Bounds of the model.                                                    *)
(***************************************************************************)
MaxCities == 4

\* probabilities and uniform draws are the multiples of 1/Resolution:
\* a draw of random.random() is k/Resolution with 0 <= k < Resolution
Resolution == 4

\* sizes of the matrices handed to the cost model
MaxCostCities == 3

\* number of base distance tables the matrices are built from
MaxSeed == 2

\* largest population and largest number of parents of a selection call
MaxPop == 3

MaxPais == 2

\* sizes of the matrices, of the population and number of generations of a
\* run of the genetic driver
MaxGaCities == 3

MaxGaPop == 4

MaxGeracoes == 1

\* population size and number of generations of a run of the genetic driver
\* on a complete matrix
MaxPopFinita == 2

MaxGeracoesFinita == 2

(***************************************************************************)
(* Python values.                                                          *)
(***************************************************************************)
\* None, as stored by [None] * n
None == -1

\* float('inf'): above every finite cost of the bounded matrices
Inf == 1000000

\* s[i] with a 0-based index
At(s, i) == s[i + 1]

\* x in lista
In(x, s) == \E k \in 1..Len(s) : s[k] = x

Min2(a, b) == IF a < b THEN a ELSE b

Max2(a, b) == IF a > b THEN a ELSE b

\* s[a:b] for 0 <= a, with the end clamped to len(s) as Python does
PySlice(s, a, b) ==
    LET hi == Min2(b, Len(s))
    IN  IF a >= hi THEN <<>> ELSE [k \in 1..(hi - a) |-> s[a + k]]

\* s[a:b] = t (the list may change its length)
PySliceAssign(s, a, b, t) ==
    PySlice(s, 0, Min2(a, Len(s))) \o t \o PySlice(s, Max2(a, b), Len(s))

\* s[a:b][::-1]
Reversed(s) == [k \in 1..Len(s) |-> s[Len(s) + 1 - k]]

\* [None] * n
Nones(n) == [k \in 1..n |-> None]

\* set(lista)
SetOf(s) == {s[k] : k \in 1..Len(s)}

\* the open-form routes over n cities: permutations of 0..n-1
Perms(n) ==
    {s \in [1..n -> 0..(n - 1)] : \A a, b \in 1..n : a # b => s[a] # s[b]}

IsPermutation(s, n) ==
    /\ Len(s) = n
    /\ \A c \in 0..(n - 1) : \E k \in 1..n : s[k] = c
    /\ \A a, b \in 1..n : a # b => s[a] # s[b]

(***************************************************************************)
(* cruzamento_ox (genetico.py 183-230).  A call returns                    *)
(* [exc, filho1, filho2]; exc names the exception the call raises.         *)
(***************************************************************************)
RECURSIVE preencher_restante(_, _, _, _, _, _, _)
preencher_restante(filho, pai_origem, conjunto_existente, pos_atual, idx_pai, count, n) ==
    IF count >= n THEN [exc |-> "none", filho |-> filho]
    ELSE IF idx_pai >= Len(pai_origem) THEN [exc |-> "IndexError", filho |-> filho]
    ELSE LET cidade == At(pai_origem, idx_pai)
         IN  IF cidade \notin conjunto_existente
             THEN IF pos_atual >= Len(filho)
                  THEN [exc |-> "IndexError", filho |-> filho]
                  ELSE preencher_restante([filho EXCEPT ![pos_atual + 1] = cidade],
                                          pai_origem, conjunto_existente,
                                          (pos_atual + 1) % n, (idx_pai + 1) % n,
                                          count + 1, n)
             ELSE preencher_restante(filho, pai_origem, conjunto_existente,
                                     pos_atual, (idx_pai + 1) % n, count + 1, n)

\* cruzamento_ox with each child filtered against the other child's segment
cruzamento_ox_conjuntos_trocados(p1, p2, pt1, pt2) ==
    LET n   == Len(p1)
        f1  == PySliceAssign(Nones(n), pt1, pt2 + 1, PySlice(p1, pt1, pt2 + 1))
        f2  == PySliceAssign(Nones(n), pt1, pt2 + 1, PySlice(p2, pt1, pt2 + 1))
        set_f1 == SetOf(PySlice(f1, pt1, pt2 + 1))
        set_f2 == SetOf(PySlice(f2, pt1, pt2 + 1))
        r1  == preencher_restante(f1, p2, set_f2, (pt2 + 1) % n, (pt2 + 1) % n, 0, n)
        r2  == preencher_restante(f2, p1, set_f1, (pt2 + 1) % n, (pt2 + 1) % n, 0, n)
    IN  IF r1.exc # "none" THEN [exc |-> r1.exc, filho1 |-> <<>>, filho2 |-> <<>>]
        ELSE IF r2.exc # "none" THEN [exc |-> r2.exc, filho1 |-> <<>>, filho2 |-> <<>>]
        ELSE [exc |-> "none", filho1 |-> r1.filho, filho2 |-> r2.filho]

\* cruzamento_ox that reads the other parent from its first position
cruzamento_ox_leitura_do_inicio(p1, p2, pt1, pt2) ==
    LET n   == Len(p1)
        f1  == PySliceAssign(Nones(n), pt1, pt2 + 1, PySlice(p1, pt1, pt2 + 1))
        f2  == PySliceAssign(Nones(n), pt1, pt2 + 1, PySlice(p2, pt1, pt2 + 1))
        set_f1 == SetOf(PySlice(f1, pt1, pt2 + 1))
        set_f2 == SetOf(PySlice(f2, pt1, pt2 + 1))
        r1  == preencher_restante(f1, p2, set_f1, (pt2 + 1) % n, 0, 0, n)
        r2  == preencher_restante(f2, p1, set_f2, (pt2 + 1) % n, 0, 0, n)
    IN  IF r1.exc # "none" THEN [exc |-> r1.exc, filho1 |-> <<>>, filho2 |-> <<>>]
        ELSE IF r2.exc # "none" THEN [exc |-> r2.exc, filho1 |-> <<>>, filho2 |-> <<>>]
        ELSE [exc |-> "none", filho1 |-> r1.filho, filho2 |-> r2.filho]

cruzamento_ox(p1, p2, pt1, pt2) ==
    LET n   == Len(p1)
        f1  == PySliceAssign(Nones(n), pt1, pt2 + 1, PySlice(p1, pt1, pt2 + 1))
        f2  == PySliceAssign(Nones(n), pt1, pt2 + 1, PySlice(p2, pt1, pt2 + 1))
        set_f1 == SetOf(PySlice(f1, pt1, pt2 + 1))
        set_f2 == SetOf(PySlice(f2, pt1, pt2 + 1))
        r1  == preencher_restante(f1, p2, set_f1, (pt2 + 1) % n, (pt2 + 1) % n, 0, n)
        r2  == preencher_restante(f2, p1, set_f2, (pt2 + 1) % n, (pt2 + 1) % n, 0, n)
    IN  IF r1.exc # "none" THEN [exc |-> r1.exc, filho1 |-> <<>>, filho2 |-> <<>>]
        ELSE IF r2.exc # "none" THEN [exc |-> r2.exc, filho1 |-> <<>>, filho2 |-> <<>>]
        ELSE [exc |-> "none", filho1 |-> r1.filho, filho2 |-> r2.filho]

(***************************************************************************)
(* cruzamento_pmx (genetico.py 232-282).                                   *)
(***************************************************************************)
\* for i in range(ponto1, ponto2 + 1): filho[i] = pai_origem[i]
RECURSIVE pmx_copiar(_, _, _, _)
pmx_copiar(filho, pai_origem, i, pt2) ==
    IF i > pt2 THEN [exc |-> "none", filho |-> filho]
    ELSE IF i >= Len(pai_origem) \/ i >= Len(filho)
         THEN [exc |-> "IndexError", filho |-> filho]
    ELSE pmx_copiar([filho EXCEPT ![i + 1] = At(pai_origem, i)], pai_origem, i + 1, pt2)

\* mapeamento[chave] = valor on a dict held as a function
DictSet(d, chave, valor) ==
    [k \in (DOMAIN d) \cup {chave} |-> IF k = chave THEN valor ELSE d[k]]

\* for i in range(ponto1, ponto2 + 1):
\*     if pai_mapeamento[i] not in filho: mapeamento[pai_origem[i]] = pai_mapeamento[i]
RECURSIVE pmx_mapeamento(_, _, _, _, _, _)
pmx_mapeamento(mapeamento, filho, pai_origem, pai_mapeamento, i, pt2) ==
    IF i > pt2 THEN [exc |-> "none", mapeamento |-> mapeamento]
    ELSE IF i >= Len(pai_mapeamento)
         THEN [exc |-> "IndexError", mapeamento |-> mapeamento]
    ELSE IF ~In(At(pai_mapeamento, i), filho)
         THEN pmx_mapeamento(DictSet(mapeamento, At(pai_origem, i), At(pai_mapeamento, i)),
                             filho, pai_origem, pai_mapeamento, i + 1, pt2)
         ELSE pmx_mapeamento(mapeamento, filho, pai_origem, pai_mapeamento, i + 1, pt2)

\* while cidade in filho and cidade in mapeamento: cidade = mapeamento[cidade]
RECURSIVE pmx_resolver(_, _, _)
pmx_resolver(cidade, filho, mapeamento) ==
    IF In(cidade, filho) /\ cidade \in DOMAIN mapeamento
    THEN pmx_resolver(mapeamento[cidade], filho, mapeamento)
    ELSE cidade

\* for i in range(n): if filho[i] is None: ... filho[i] = cidade
RECURSIVE pmx_preencher(_, _, _, _, _)
pmx_preencher(filho, pai_mapeamento, mapeamento, i, n) ==
    IF i >= n THEN [exc |-> "none", filho |-> filho]
    ELSE IF At(filho, i) = None
         THEN IF i >= Len(pai_mapeamento)
              THEN [exc |-> "IndexError", filho |-> filho]
              ELSE pmx_preencher(
                       [filho EXCEPT ![i + 1] =
                            pmx_resolver(At(pai_mapeamento, i), filho, mapeamento)],
                       pai_mapeamento, mapeamento, i + 1, n)
         ELSE pmx_preencher(filho, pai_mapeamento, mapeamento, i + 1, n)

criar_filho_pmx(pai_origem, pai_mapeamento, pt1, pt2, n) ==
    LET c == pmx_copiar(Nones(n), pai_origem, pt1, pt2)
    IN  IF c.exc # "none" THEN c
        ELSE LET m == pmx_mapeamento(<<>>, c.filho, pai_origem, pai_mapeamento, pt1, pt2)
             IN  IF m.exc # "none" THEN [exc |-> m.exc, filho |-> c.filho]
                 ELSE pmx_preencher(c.filho, pai_mapeamento, m.mapeamento, 0, n)

cruzamento_pmx(p1, p2, pt1, pt2) ==
    LET n  == Len(p1)
        r1 == criar_filho_pmx(p1, p2, pt1, pt2, n)
        r2 == criar_filho_pmx(p2, p1, pt1, pt2, n)
    IN  IF r1.exc # "none" THEN [exc |-> r1.exc, filho1 |-> <<>>, filho2 |-> <<>>]
        ELSE IF r2.exc # "none" THEN [exc |-> r2.exc, filho1 |-> <<>>, filho2 |-> <<>>]
        ELSE [exc |-> "none", filho1 |-> r1.filho, filho2 |-> r2.filho]

(***************************************************************************)
(* The crossover operators on their own: two parents are given, one        *)
(* crossover is called on them and returns or raises.                      *)
(***************************************************************************)
InitCross ==
    /\ pc = "cx_call"
    /\ op \in {"ox", "pmx"}
    /\ \E n \in 1..MaxCities : pai1 \in Perms(n) /\ pai2 \in Perms(n)
    /\ ponto1 = 0 /\ ponto2 = 0
    /\ filho1 = <<>> /\ filho2 = <<>>
    /\ EnvIdle /\ HeurIdle /\ MutIdle /\ SelIdle /\ CostIdle /\ OptIdle /\ GaIdle

\* ponto1, ponto2 = sorted(random.sample(range(n), 2)) and the rest of cruzamento_ox
CallOX ==
    /\ pc = "cx_call" /\ op = "ox"
    /\ Len(pai1) >= 2
    /\ \E a \in 0..(Len(pai1) - 1), b \in 0..(Len(pai1) - 1) :
          /\ a < b
          /\ LET r == cruzamento_ox(pai1, pai2, a, b)
             IN  /\ ponto1' = a /\ ponto2' = b
                 /\ pc' = IF r.exc = "none" THEN "cx_done" ELSE "cx_raised"
                 /\ filho1' = r.filho1 /\ filho2' = r.filho2
    /\ UNCHANGED <<op, pai1, pai2, envVars, heurVars, mutVars, selVars, costVars, optVars, gaVars>>

\* random.sample(range(n), 2) with n < 2 raises ValueError
CallOXSample ==
    /\ pc = "cx_call" /\ op = "ox"
    /\ Len(pai1) < 2
    /\ pc' = "cx_raised"
    /\ UNCHANGED <<op, cxVars, envVars, heurVars, mutVars, selVars, costVars, optVars, gaVars>>

\* ponto1 = randint(0, n-1); ponto2 = randint(0, n-1); swap if ponto1 > ponto2
CallPMX ==
    /\ pc = "cx_call" /\ op = "pmx"
    /\ \E a \in 0..(Len(pai1) - 1), b \in 0..(Len(pai1) - 1) :
          LET lo == IF a > b THEN b ELSE a
              hi == IF a > b THEN a ELSE b
              r  == cruzamento_pmx(pai1, pai2, lo, hi)
          IN  /\ ponto1' = lo /\ ponto2' = hi
              /\ pc' = IF r.exc = "none" THEN "cx_done" ELSE "cx_raised"
              /\ filho1' = r.filho1 /\ filho2' = r.filho2
    /\ UNCHANGED <<op, pai1, pai2, envVars, heurVars, mutVars, selVars, costVars, optVars, gaVars>>

NextCross == CallOX \/ CallOXSample \/ CallPMX

\* the order crossover alone, and the partially-mapped crossover alone
InitOX == InitCross /\ op = "ox"

NextOX == CallOX \/ CallOXSample

SpecOX == InitOX /\ [][NextOX]_vars

InitPMX == InitCross /\ op = "pmx"

NextPMX == CallPMX

SpecPMX == InitPMX /\ [][NextPMX]_vars

\* C1: both children of the PMX crossover are permutations of 0..N-1
C1_PmxChildrenArePermutations ==
    (pc = "cx_done" /\ op = "pmx") =>
        /\ IsPermutation(filho1, Len(pai1))
        /\ IsPermutation(filho2, Len(pai1))

\* C2: both children of the order crossover are permutations of 0..N-1,
\* for every pair of cut points p1 < p2 (each of them is drawn by some run)
\* and for the pairs p1 = p2
C2_OxChildrenArePermutations ==
    (op = "ox" /\ Len(pai1) >= 2) =>
        /\ pc = "cx_done" =>
              /\ IsPermutation(filho1, Len(pai1))
              /\ IsPermutation(filho2, Len(pai1))
              /\ \A k \in 1..Len(filho1) : filho1[k] # None /\ filho2[k] # None
        /\ pc # "cx_raised"
        /\ pc = "cx_call" =>
              \A a \in 0..(Len(pai1) - 1) :
                  LET r == cruzamento_ox(pai1, pai2, a, a)
                  IN  /\ r.exc = "none"
                      /\ IsPermutation(r.filho1, Len(pai1))
                      /\ IsPermutation(r.filho2, Len(pai1))

C2_Witness ==
    /\ pc = "cx_done" /\ op = "ox"
    /\ Len(pai1) = 4 /\ pai1 # pai2
    /\ ponto1 = 1 /\ ponto2 = 2
    /\ filho1 # pai1 /\ filho1 # pai2

\* the elements of s that are not in fora, in the order of s
RECURSIVE Filtrar(_, _)
Filtrar(s, fora) ==
    IF s = <<>> THEN <<>>
    ELSE IF s[1] \in fora THEN Filtrar(Tail(s), fora)
         ELSE <<s[1]>> \o Filtrar(Tail(s), fora)

\* the cities of pb outside the segment pa[p1..p2], read from position
\* inicio of pb and round
OxResto(pa, pb, p1, p2, inicio) ==
    Filtrar([k \in 1..Len(pb) |-> At(pb, (inicio + k - 1) % Len(pb))],
            {At(pa, k) : k \in p1..p2})

\* the child that holds pa at p1..p2 and, from p2 + 1 on and round, the
\* cities of OxResto one after the other
OxEsperado(pa, pb, p1, p2, inicio) ==
    LET n == Len(pa)
        resto == OxResto(pa, pb, p1, p2, inicio)
    IN  [k \in 1..n |->
            IF p1 <= k - 1 /\ k - 1 <= p2 THEN pa[k]
            ELSE resto[((k - 1 - (p2 + 1) + n) % n) + 1]]

\* the worked example: parents [0,1,2,3,4] and [4,3,2,1,0], cuts (1, 3)
OxExemplo == cruzamento_ox(<<0, 1, 2, 3, 4>>, <<4, 3, 2, 1, 0>>, 1, 3)

\* C20 as stated: child 1 holds parent A at p1..p2 and, from p2 + 1 on and
\* round, parent B's cities outside the segment in the order they have in
\* parent B (from its first position); child 2 the same with the parents
\* swapped; the example's child 1 has 1, 2, 3 at positions 1..3.  Stated
\* for the cuts a call draws (p1 < p2)
C20_OxChildrenFollowParentOrder ==
    (op = "ox" /\ Len(pai1) >= 2) =>
        /\ pc = "cx_done" =>
              /\ filho1 = OxEsperado(pai1, pai2, ponto1, ponto2, 0)
              /\ filho2 = OxEsperado(pai2, pai1, ponto1, ponto2, 0)
        /\ PySlice(OxExemplo.filho1, 1, 4) = <<1, 2, 3>>

\* C20 (amended): the same for every p1 <= p2 (the pairs p1 = p2 included,
\* which no call draws), the cities of parent B taken in the order they
\* have in parent B read from position p2 + 1 and round
C20_OxChildrenFollowCircularOrder ==
    (op = "ox" /\ Len(pai1) >= 2) =>
        /\ pc = "cx_done" =>
              /\ filho1 = OxEsperado(pai1, pai2, ponto1, ponto2, (ponto2 + 1) % Len(pai1))
              /\ filho2 = OxEsperado(pai2, pai1, ponto1, ponto2, (ponto2 + 1) % Len(pai1))
        /\ pc = "cx_call" =>
              \A a \in 0..(Len(pai1) - 1) :
                  LET r == cruzamento_ox(pai1, pai2, a, a)
                  IN  /\ r.filho1 = OxEsperado(pai1, pai2, a, a, (a + 1) % Len(pai1))
                      /\ r.filho2 = OxEsperado(pai2, pai1, a, a, (a + 1) % Len(pai1))
        /\ PySlice(OxExemplo.filho1, 1, 4) = <<1, 2, 3>>
        /\ OxExemplo.filho1 = <<4, 1, 2, 3, 0>>

C20_Witness ==
    /\ pc = "cx_done" /\ op = "ox"
    /\ pai1 = <<0, 1, 2, 3>> /\ pai2 = <<3, 2, 1, 0>>
    /\ ponto1 = 1 /\ ponto2 = 2
    /\ filho1 = <<3, 1, 2, 0>>

(***************************************************************************)
(* Mutation operators: mutacao_swap, mutacao_inversao (genetico.py         *)
(* 285-346), mutacao_shift, mutacao_2_opt (memetico.py 24-95).             *)
(***************************************************************************)
\* if random.random() > probabilidade_mutacao: return rota
moeda_falha(r, p) == r > p

\* rota_mutada[pos1], rota_mutada[pos2] = rota_mutada[pos2], rota_mutada[pos1]
trocar(r, a, b) ==
    [k \in 1..Len(r) |-> IF k = a + 1 THEN At(r, b) ELSE IF k = b + 1 THEN At(r, a) ELSE r[k]]

\* if ponto1 > ponto2: swap them;
\* rota_mutada[ponto1:ponto2+1] = rota_mutada[ponto1:ponto2+1][::-1]
inverter(r, a, b) ==
    LET lo == IF a > b THEN b ELSE a
        hi == IF a > b THEN a ELSE b
    IN  PySliceAssign(r, lo, hi + 1, Reversed(PySlice(r, lo, hi + 1)))

\* lista.insert(k, x)
PyInsert(r, k, x) == PySlice(r, 0, k) \o <<x>> \o PySlice(r, k, Len(r))

\* shift that inserts the city without removing it first
deslocar_sem_remover(r, o, d) == PyInsert(r, d, At(r, o))

\* cidade = rota_mutada.pop(origem); if destino > origem: destino -= 1;
\* if destino == 0: destino = 1; rota_mutada.insert(destino, cidade)
deslocar(r, o, d) ==
    LET cidade == At(r, o)
        resto  == PySlice(r, 0, o) \o PySlice(r, o + 1, Len(r))
        d1     == IF d > o THEN d - 1 ELSE d
        d2     == IF d1 = 0 THEN 1 ELSE d1
    IN  PyInsert(resto, d2, cidade)

\* rota_mutada[i:j+1] = reversed(rota_mutada[i:j+1])
inverter_2opt(r, a, b) == PySliceAssign(r, a, b + 1, Reversed(PySlice(r, a, b + 1)))

InitMut ==
    /\ pc = "mut_call"
    /\ op \in {"swap", "inversao", "shift", "2opt"}
    /\ \E n \in 1..MaxCities : rota \in Perms(n)
    /\ probabilidade_mutacao \in 0..Resolution
    /\ sorteio = 0
    /\ pos1 = 0 /\ pos2 = 0 /\ origem = 0 /\ destino = 0
    /\ rota_mutada = <<>>
    /\ EnvIdle /\ HeurIdle /\ CxIdle /\ SelIdle /\ CostIdle /\ OptIdle /\ GaIdle

mutOthers == <<envVars, heurVars, cxVars, selVars, costVars, optVars, gaVars>>

\* the coin flip fails: the operator returns its argument
MutCoinFails ==
    /\ pc = "mut_call"
    /\ \E r \in 0..(Resolution - 1) :
          /\ moeda_falha(r, probabilidade_mutacao)
          /\ sorteio' = r
    /\ rota_mutada' = rota
    /\ pc' = "mut_done"
    /\ UNCHANGED <<op, rota, probabilidade_mutacao, pos1, pos2, origem, destino, mutOthers>>

\* mutacao_swap: pos1 = randint(0, n-1); pos2 = randint(0, n-1)
SwapDraw ==
    /\ pc = "mut_call" /\ op = "swap"
    /\ \E r \in 0..(Resolution - 1) :
          /\ ~moeda_falha(r, probabilidade_mutacao)
          /\ sorteio' = r
    /\ pos1' \in 0..(Len(rota) - 1)
    /\ pos2' \in 0..(Len(rota) - 1)
    /\ pc' = "swap_while"
    /\ UNCHANGED <<op, rota, probabilidade_mutacao, origem, destino, rota_mutada, mutOthers>>

\* while pos1 == pos2: pos2 = randint(0, n-1)
SwapRedraw ==
    /\ pc = "swap_while"
    /\ pos1 = pos2
    /\ pos2' \in 0..(Len(rota) - 1)
    /\ UNCHANGED <<pc, op, rota, probabilidade_mutacao, sorteio, pos1, origem, destino,
                   rota_mutada, mutOthers>>

SwapReturn ==
    /\ pc = "swap_while"
    /\ pos1 # pos2
    /\ rota_mutada' = trocar(rota, pos1, pos2)
    /\ pc' = "mut_done"
    /\ UNCHANGED <<op, rota, probabilidade_mutacao, sorteio, pos1, pos2, origem, destino,
                   mutOthers>>

\* mutacao_inversao: ponto1 = randint(0, n-1); ponto2 = randint(0, n-1); reverse
Inversao ==
    /\ pc = "mut_call" /\ op = "inversao"
    /\ \E r \in 0..(Resolution - 1) :
          /\ ~moeda_falha(r, probabilidade_mutacao)
          /\ sorteio' = r
    /\ \E a \in 0..(Len(rota) - 1), b \in 0..(Len(rota) - 1) :
          /\ pos1' = a /\ pos2' = b
          /\ rota_mutada' = inverter(rota, a, b)
    /\ pc' = "mut_done"
    /\ UNCHANGED <<op, rota, probabilidade_mutacao, origem, destino, mutOthers>>

\* mutacao_shift / mutacao_2_opt: if n < 3: return rota
ShortRoute ==
    /\ pc = "mut_call" /\ op \in {"shift", "2opt"}
    /\ \E r \in 0..(Resolution - 1) :
          /\ ~moeda_falha(r, probabilidade_mutacao)
          /\ sorteio' = r
    /\ Len(rota) < 3
    /\ rota_mutada' = rota
    /\ pc' = "mut_done"
    /\ UNCHANGED <<op, rota, probabilidade_mutacao, pos1, pos2, origem, destino, mutOthers>>

\* mutacao_shift: origem = randint(1, n-1); destino = randint(1, n-1)
ShiftDraw ==
    /\ pc = "mut_call" /\ op = "shift"
    /\ \E r \in 0..(Resolution - 1) :
          /\ ~moeda_falha(r, probabilidade_mutacao)
          /\ sorteio' = r
    /\ Len(rota) >= 3
    /\ origem' \in 1..(Len(rota) - 1)
    /\ destino' \in 1..(Len(rota) - 1)
    /\ pc' = "shift_while"
    /\ UNCHANGED <<op, rota, probabilidade_mutacao, pos1, pos2, rota_mutada, mutOthers>>

\* while origem == destino: destino = randint(1, n-1)
ShiftRedraw ==
    /\ pc = "shift_while"
    /\ origem = destino
    /\ destino' \in 1..(Len(rota) - 1)
    /\ UNCHANGED <<pc, op, rota, probabilidade_mutacao, sorteio, pos1, pos2, origem,
                   rota_mutada, mutOthers>>

ShiftReturn ==
    /\ pc = "shift_while"
    /\ origem # destino
    /\ rota_mutada' = deslocar(rota, origem, destino)
    /\ pc' = "mut_done"
    /\ UNCHANGED <<op, rota, probabilidade_mutacao, sorteio, pos1, pos2, origem, destino,
                   mutOthers>>

\* mutacao_2_opt: i = randint(1, n-2); j = randint(i+1, n-1); reverse [i..j]
DoisOpt ==
    /\ pc = "mut_call" /\ op = "2opt"
    /\ \E r \in 0..(Resolution - 1) :
          /\ ~moeda_falha(r, probabilidade_mutacao)
          /\ sorteio' = r
    /\ Len(rota) >= 3
    /\ \E a \in 1..(Len(rota) - 2) : \E b \in (a + 1)..(Len(rota) - 1) :
          /\ pos1' = a /\ pos2' = b
          /\ rota_mutada' = inverter_2opt(rota, a, b)
    /\ pc' = "mut_done"
    /\ UNCHANGED <<op, rota, probabilidade_mutacao, origem, destino, mutOthers>>

NextMut ==
    \/ MutCoinFails
    \/ SwapDraw \/ SwapRedraw \/ SwapReturn
    \/ Inversao
    \/ ShortRoute
    \/ ShiftDraw \/ ShiftRedraw \/ ShiftReturn
    \/ DoisOpt

SpecMut == InitMut /\ [][NextMut]_vars

\* C3: the route a mutation operator returns has the length and the
\* elements of its input route
C3_MutationKeepsLengthAndElements ==
    pc = "mut_done" =>
        /\ Len(rota_mutada) = Len(rota)
        /\ SetOf(rota_mutada) = SetOf(rota)
        /\ \A c \in SetOf(rota) :
              Cardinality({k \in 1..Len(rota_mutada) : rota_mutada[k] = c}) = 1

C3_Witness ==
    /\ pc = "mut_done" /\ op = "shift"
    /\ Len(rota) = 4
    /\ origem = 1 /\ destino = 3
    /\ rota_mutada # rota

\* C4: with probability 0, swap / inversion / shift return the input
\* route unchanged whatever the uniform draw is, 0 included
C4_ProbabilityZeroReturnsInput ==
    (pc = "mut_done" /\ probabilidade_mutacao = 0 /\ op \in {"swap", "inversao", "shift"}) =>
        rota_mutada = rota

(***************************************************************************)
(* Move operators and crossovers side by side, for the routes of at most   *)
(* two nodes.                                                              *)
(***************************************************************************)
InitOps == InitCross \/ InitMut

NextOps == NextCross \/ NextMut

SpecOps == InitOps /\ [][NextOps]_vars

\* C6: on a route of N <= 2 nodes every move operator and every crossover
\* returns its input unchanged and terminates
C6_ShortRoutesReturnedUnchanged ==
    /\ (pc \in {"mut_done", "swap_while", "shift_while"} /\ Len(rota) <= 2) =>
          /\ pc = "mut_done" => rota_mutada = rota
          /\ pc = "swap_while" => \E b \in 0..(Len(rota) - 1) : b # pos1
          /\ pc # "shift_while"
    /\ (pc \in {"cx_done", "cx_raised"} /\ Len(pai1) <= 2) =>
          /\ pc = "cx_done"
          /\ {filho1, filho2} = {pai1, pai2}

(***************************************************************************)
(* Cost matrices handed to the core: square, zero diagonal, positive       *)
(* finite entries or float('inf') for the unreachable pairs (utils.py      *)
(* fills missing entries with inf).                                        *)
(***************************************************************************)
BaseDist(s, a, b) == IF a = b THEN 0 ELSE ((s * a + (s + 2) * b + a * b) % 7) + 1

Pairs(n) == {ab \in (0..(n - 1)) \X (0..(n - 1)) : ab[1] # ab[2]}

\* no pair unreachable, one ordered pair unreachable, every pair unreachable
BlockSets(n) == {{}} \cup {{ab} : ab \in Pairs(n)} \cup {Pairs(n)}

Matriz(n, s, blocked) ==
    [a \in 1..n |-> [b \in 1..n |->
        IF <<a - 1, b - 1>> \in blocked THEN Inf ELSE BaseDist(s, a - 1, b - 1)]]

Matrizes(n) == {Matriz(n, s, bl) : s \in 1..MaxSeed, bl \in BlockSets(n)}

\* matriz_distancias[u][v]
Dist(m, u, v) == m[u + 1][v + 1]

\* the closed form of an open route, and its truncations (partial routes)
\* the route left open: the return to the first city is not appended
Fechar_aberta(r) == r

Fechar(r) == r \o <<r[1]>>

(***************************************************************************)
(* calcular_custo_rota (utils.py 144-159).                                 *)
(***************************************************************************)
\* for i in range(len(rota) - 1): ... custo += dist
RECURSIVE somar_arestas(_, _, _, _)
somar_arestas(r, m, k, acc) ==
    IF k >= Len(r) - 1 THEN acc
    ELSE LET dist == Dist(m, At(r, k), At(r, k + 1))
         IN  IF dist = Inf THEN Inf
             ELSE somar_arestas(r, m, k + 1, acc + dist)

\* the cost without the length test
calcular_custo_rota_sem_teste(r, m) == somar_arestas(r, m, 0, 0)

calcular_custo_rota(r, m) ==
    IF Len(r) < Len(m) + 1 THEN Inf
    ELSE somar_arestas(r, m, 0, 0)

(***************************************************************************)
(* calcular_fitness (genetico.py 64-89): 1.0 / (custo + 1.0) as the exact  *)
(* rational <<1, custo + 1>>, 0.0 as <<0, 1>>.                             *)
(***************************************************************************)
\* fitness that is the cost itself instead of its inverse
calcular_fitness_direto(r, m) ==
    LET c == calcular_custo_rota(Fechar(r), m)
    IN  IF c = Inf THEN <<0, 1>> ELSE <<c + 1, 1>>

calcular_fitness(r, m) ==
    LET c == calcular_custo_rota(Fechar(r), m)
    IN  IF c = Inf THEN <<0, 1>> ELSE <<1, c + 1>>

\* comparisons of rationals with positive denominators
RatLt(x, y) == x[1] * y[2] < y[1] * x[2]

RatLe(x, y) == x[1] * y[2] <= y[1] * x[2]

RECURSIVE Gcd(_, _)
Gcd(a, b) == IF b = 0 THEN a ELSE Gcd(b, a % b)

\* a rational in lowest terms (0 is <<0, 1>>)
RatNorm(x) == LET g == Gcd(x[1], x[2]) IN <<x[1] \div g, x[2] \div g>>

RatAdd(x, y) == RatNorm(<<x[1] * y[2] + y[1] * x[2], x[2] * y[2]>>)

\* x / y for y > 0
RatDiv(x, y) == RatNorm(<<x[1] * y[2], x[2] * y[1]>>)

(***************************************************************************)
(* The cost model on its own: one call of calcular_custo_rota on any       *)
(* route of at most N+1 nodes, or one call of calcular_fitness on any      *)
(* open route of at most N nodes.                                          *)
(***************************************************************************)
Rotas(n, maxlen) == UNION {[1..k -> 0..(n - 1)] : k \in 1..maxlen}

InitCost ==
    /\ pc = "cost_call"
    /\ op \in {"custo", "fitness"}
    /\ \E n \in 2..MaxCostCities :
          /\ matriz_distancias \in Matrizes(n)
          /\ rota \in Rotas(n, IF op = "custo" THEN n + 1 ELSE n)
    /\ custo = 0 /\ fitness = <<0, 1>>
    /\ probabilidade_mutacao = 0 /\ sorteio = 0
    /\ pos1 = 0 /\ pos2 = 0 /\ origem = 0 /\ destino = 0 /\ rota_mutada = <<>>
    /\ CxIdle /\ SelIdle /\ OptIdle /\ GaIdle
    /\ HeurIdle

CalcularCusto ==
    /\ pc = "cost_call" /\ op = "custo"
    /\ custo' = calcular_custo_rota(rota, matriz_distancias)
    /\ pc' = "cost_done"
    /\ UNCHANGED <<op, fitness, envVars, heurVars, mutVars, cxVars, selVars, optVars, gaVars>>

CalcularFitness ==
    /\ pc = "cost_call" /\ op = "fitness"
    /\ custo' = calcular_custo_rota(Fechar(rota), matriz_distancias)
    /\ fitness' = calcular_fitness(rota, matriz_distancias)
    /\ pc' = "cost_done"
    /\ UNCHANGED <<op, envVars, heurVars, mutVars, cxVars, selVars, optVars, gaVars>>

NextCost == CalcularCusto \/ CalcularFitness

SpecCost == InitCost /\ [][NextCost]_vars

\* the sum of the costs of the consecutive pairs of a route
SomaDasArestas(r, m) ==
    LET E == 1..(Len(r) - 1)
        f[S \in SUBSET E] ==
            IF S = {} THEN 0
            ELSE LET k == CHOOSE x \in S : TRUE
                 IN  Dist(m, r[k], r[k + 1]) + f[S \ {k}]
    IN  f[E]

\* C8: a route shorter than N+1 costs infinity; a route of N+1 nodes costs
\* the sum of its N edges, or infinity when one of them is infinite
C8_RouteCost ==
    (pc = "cost_done" /\ op = "custo") =>
        LET n == Len(matriz_distancias)
            temInf == \E k \in 1..(Len(rota) - 1) :
                          Dist(matriz_distancias, rota[k], rota[k + 1]) = Inf
        IN  /\ Len(rota) < n + 1 => custo = Inf
            /\ Len(rota) = n + 1 =>
                  /\ temInf => custo = Inf
                  /\ ~temInf => custo = SomaDasArestas(rota, matriz_distancias)

C8_Witness ==
    /\ pc = "cost_done" /\ op = "custo"
    /\ Len(matriz_distancias) = 3
    /\ rota = <<0, 1, 2, 0>>
    /\ custo # Inf /\ custo > 3

InserirCrescente(lista, x) ==
    LET k == Cardinality({q \in 1..Len(lista) : ~RatLt(x[1], lista[q][1])})
    IN  PySlice(lista, 0, k) \o <<x>> \o PySlice(lista, k, Len(lista))

\* insertion before the elements of equal fitness
InserirAntesDosIguais(lista, x) ==
    LET k == Cardinality({q \in 1..Len(lista) : RatLt(x[1], lista[q][1])})
    IN  PySlice(lista, 0, k) \o <<x>> \o PySlice(lista, k, Len(lista))

\* position of x in a list sorted by non-increasing fitness, after the
\* elements that are not smaller (stability)
InserirOrdenado(lista, x) ==
    LET k == Cardinality({q \in 1..Len(lista) : ~RatLt(lista[q][1], x[1])})
    IN  PySlice(lista, 0, k) \o <<x>> \o PySlice(lista, k, Len(lista))

RECURSIVE OrdenarDecrescente(_, _)
OrdenarDecrescente(feitos, resto) ==
    IF resto = <<>> THEN feitos
    ELSE OrdenarDecrescente(InserirOrdenado(feitos, Head(resto)), Tail(resto))

avaliar_populacao(pop, m) ==
    OrdenarDecrescente(<<>>, [k \in 1..Len(pop) |-> <<calcular_fitness(pop[k], m), pop[k]>>])

(***************************************************************************)
(* selecao_roleta (genetico.py 113-153).                                   *)
(***************************************************************************)
RECURSIVE somar_fitness(_)
somar_fitness(pa) ==
    IF pa = <<>> THEN <<0, 1>> ELSE RatAdd(Head(pa)[1], somar_fitness(Tail(pa)))

\* for i, prob in enumerate(probabilidades): acumulado += prob;
\*     if r <= acumulado: ... break
\* the index selected, or None when the loop ends without a break
\* the walk that compares r with each probability instead of their running sum
RECURSIVE roleta_indice_sem_acumular(_, _, _, _, _)
roleta_indice_sem_acumular(pa, soma, r, k, acumulado) ==
    IF k >= Len(pa) THEN None
    ELSE IF RatLe(r, RatDiv(At(pa, k)[1], soma)) THEN k
         ELSE roleta_indice_sem_acumular(pa, soma, r, k + 1, acumulado)

RECURSIVE roleta_indice(_, _, _, _, _)
roleta_indice(pa, soma, r, k, acumulado) ==
    IF k >= Len(pa) THEN None
    ELSE LET ac == RatAdd(acumulado, RatDiv(At(pa, k)[1], soma))
         IN  IF RatLe(r, ac) THEN k
             ELSE roleta_indice(pa, soma, r, k + 1, ac)

(***************************************************************************)
(* selecao_torneio (genetico.py 156-181).                                  *)
(***************************************************************************)
\* random.sample(populacao_avaliada, k): k distinct positions, in any order
Amostras(n, k) ==
    {a \in [1..k -> 1..n] : \A x, y \in 1..k : x # y => a[x] # a[y]}

\* max(participantes, key=fitness): the first participant of maximal fitness
melhor_participante(pa, amostra) ==
    amostra[CHOOSE k \in 1..Len(amostra) :
               /\ \A q \in 1..Len(amostra) : ~RatLt(pa[amostra[k]][1], pa[amostra[q]][1])
               /\ \A q \in 1..(k - 1) : RatLt(pa[amostra[q]][1], pa[amostra[k]][1])]

(***************************************************************************)
(* Evaluation and selection on their own: a population of open routes is   *)
(* ranked, then one selection method is asked for num_pais parents.        *)
(***************************************************************************)
\* the open routes over n cities that start at city 0
RotasDe0(n) == {r \in Perms(n) : r[1] = 0}

InitSel ==
    /\ pc = "eval_call"
    /\ op \in {"roleta", "torneio"}
    /\ \E n \in 2..MaxCostCities :
          /\ matriz_distancias \in {Matriz(n, 1, bl) : bl \in {{}, {<<0, 1>>}, Pairs(n)}}
          /\ \E k \in 1..MaxPop : populacao \in [1..k -> RotasDe0(n)]
    /\ num_pais \in 0..MaxPais
    /\ tamanho_torneio \in IF op = "torneio" THEN 1..MaxPop ELSE {0}
    /\ populacao_avaliada = <<>>
    /\ pais_selecionados = <<>>
    /\ contador = 0
    /\ params = <<>> /\ nova_populacao = <<>> /\ geracao = 0
    /\ melhor_custo_global = 0 /\ melhor_rota_global = <<>> /\ historico_fitness = <<>>
    /\ excecao = "none"
    /\ MutIdle /\ CxIdle /\ CostIdle /\ OptIdle
    /\ HeurIdle

selOthers == <<envVars, heurVars, mutVars, cxVars, costVars, optVars, gaVars>>

Avaliar ==
    /\ pc = "eval_call"
    /\ populacao_avaliada' = avaliar_populacao(populacao, matriz_distancias)
    /\ pc' = "sel_loop"
    /\ UNCHANGED <<op, num_pais, tamanho_torneio, pais_selecionados, contador, selOthers>>

\* if soma_fitness == 0: [random.choice(populacao_avaliada)[1] for _ in range(num_pais)]
RoletaUniforme ==
    /\ pc = "sel_loop" /\ op = "roleta"
    /\ contador < num_pais
    /\ somar_fitness(populacao_avaliada)[1] = 0
    /\ \E k \in 1..Len(populacao_avaliada) :
          pais_selecionados' = Append(pais_selecionados, populacao_avaliada[k][2])
    /\ contador' = contador + 1
    /\ UNCHANGED <<pc, op, populacao_avaliada, num_pais, tamanho_torneio, selOthers>>

\* r = random.random(); walk the cumulative probabilities
RoletaGirar ==
    /\ pc = "sel_loop" /\ op = "roleta"
    /\ contador < num_pais
    /\ somar_fitness(populacao_avaliada)[1] # 0
    /\ \E r \in 0..(Resolution - 1) :
          LET k == roleta_indice(populacao_avaliada, somar_fitness(populacao_avaliada),
                                 <<r, Resolution>>, 0, <<0, 1>>)
          IN  pais_selecionados' =
                  IF k = None THEN pais_selecionados
                  ELSE Append(pais_selecionados, At(populacao_avaliada, k)[2])
    /\ contador' = contador + 1
    /\ UNCHANGED <<pc, op, populacao_avaliada, num_pais, tamanho_torneio, selOthers>>

\* participantes = random.sample(..., min(tamanho_torneio, len)); melhor = max(...)
Torneio ==
    /\ pc = "sel_loop" /\ op = "torneio"
    /\ contador < num_pais
    /\ \E amostra \in Amostras(Len(populacao_avaliada),
                                Min2(tamanho_torneio, Len(populacao_avaliada))) :
          pais_selecionados' =
              Append(pais_selecionados,
                     populacao_avaliada[melhor_participante(populacao_avaliada, amostra)][2])
    /\ contador' = contador + 1
    /\ UNCHANGED <<pc, op, populacao_avaliada, num_pais, tamanho_torneio, selOthers>>

\* return pais_selecionados
SelReturn ==
    /\ pc = "sel_loop"
    /\ contador >= num_pais
    /\ pc' = "sel_done"
    /\ UNCHANGED <<op, selVars, selOthers>>

NextSel == Avaliar \/ RoletaUniforme \/ RoletaGirar \/ Torneio \/ SelReturn

SpecSel == InitSel /\ [][NextSel]_vars

aceita_pior(novo_custo, custo_atual) == novo_custo > custo_atual

\* the test that also takes a reversal of equal cost
aceita_empate(novo_custo, custo_atual) == novo_custo <= custo_atual

aceita(novo_custo, custo_atual) == novo_custo < custo_atual

\* melhor_rota[:i] + melhor_rota[i:j+1][::-1] + melhor_rota[j+1:]
nova_rota_2opt(r, a, b) ==
    PySlice(r, 0, a) \o Reversed(PySlice(r, a, b + 1)) \o PySlice(r, b + 1, Len(r))

\* the worked example: a path 0-1-2-3 of unit edges, every other edge 9
MatrizExemplo ==
    <<<<0, 1, 9, 9>>, <<1, 0, 1, 9>>, <<9, 1, 0, 1>>, <<9, 9, 1, 0>>>>

\* the matrices the search is run on: the generated ones and the worked example
OptMatrizes(n) ==
    Matrizes(n) \cup (IF n = Len(MatrizExemplo) THEN {MatrizExemplo} ELSE {})

InitOpt ==
    /\ pc = "opt_call"
    /\ op = "2opt_completo"
    /\ \E n \in 2..MaxCities :
          /\ matriz_distancias \in OptMatrizes(n)
          /\ \E p \in Perms(n) : rota = Fechar(p)
    /\ melhor_rota = <<>> /\ melhor_custo = 0 /\ melhoria = FALSE
    /\ idx_i = 0 /\ idx_j = 0
    /\ probabilidade_mutacao = 0 /\ sorteio = 0
    /\ pos1 = 0 /\ pos2 = 0 /\ origem = 0 /\ destino = 0 /\ rota_mutada = <<>>
    /\ CxIdle /\ SelIdle /\ CostIdle /\ GaIdle
    /\ HeurIdle

optOthers == <<op, envVars, heurVars, mutVars, cxVars, selVars, costVars, gaVars>>

\* melhor_rota = copy.deepcopy(rota); melhor_custo = ...; melhoria = True
OptStart ==
    /\ pc = "opt_call"
    /\ melhor_rota' = rota
    /\ melhor_custo' = calcular_custo_rota(rota, matriz_distancias)
    /\ melhoria' = TRUE
    /\ pc' = "opt_while"
    /\ UNCHANGED <<idx_i, idx_j, optOthers>>

\* while melhoria: melhoria = False; for i in range(1, len(melhor_rota) - 2): ...
OptPass ==
    /\ pc = "opt_while"
    /\ melhoria
    /\ melhoria' = FALSE
    /\ idx_i' = 1 /\ idx_j' = 2
    /\ pc' = "opt_for"
    /\ UNCHANGED <<melhor_rota, melhor_custo, optOthers>>

\* one trial of the inner loop: for j in range(i + 1, len(melhor_rota) - 1)
OptTrial ==
    /\ pc = "opt_for"
    /\ idx_i < Len(melhor_rota) - 2
    /\ idx_j < Len(melhor_rota) - 1
    /\ LET nova_rota  == nova_rota_2opt(melhor_rota, idx_i, idx_j)
           novo_custo == calcular_custo_rota(nova_rota, matriz_distancias)
       IN  IF aceita(novo_custo, melhor_custo)
           THEN /\ melhor_custo' = novo_custo
                /\ melhor_rota' = nova_rota
                /\ melhoria' = TRUE
           ELSE UNCHANGED <<melhor_custo, melhor_rota, melhoria>>
    /\ idx_j' = idx_j + 1
    /\ UNCHANGED <<pc, idx_i, optOthers>>

\* the inner loop is exhausted: next i
OptNextI ==
    /\ pc = "opt_for"
    /\ idx_i < Len(melhor_rota) - 2
    /\ idx_j >= Len(melhor_rota) - 1
    /\ idx_i' = idx_i + 1
    /\ idx_j' = idx_i + 2
    /\ UNCHANGED <<pc, melhor_rota, melhor_custo, melhoria, optOthers>>

\* the outer loop is exhausted: back to the while test
OptEndPass ==
    /\ pc = "opt_for"
    /\ idx_i >= Len(melhor_rota) - 2
    /\ pc' = "opt_while"
    /\ UNCHANGED <<melhor_rota, melhor_custo, melhoria, idx_i, idx_j, optOthers>>

\* return melhor_rota
OptReturn ==
    /\ pc = "opt_while"
    /\ ~melhoria
    /\ pc' = "opt_done"
    /\ UNCHANGED <<melhor_rota, melhor_custo, melhoria, idx_i, idx_j, optOthers>>

NextOpt == OptStart \/ OptPass \/ OptTrial \/ OptNextI \/ OptEndPass \/ OptReturn

SpecOpt == InitOpt /\ [][NextOpt]_vars

\* C10: the route returned by the full 2-opt search costs no more than the
\* input route and is a closed route over the same nodes
C10_TwoOptNeverWorsens ==
    pc = "opt_done" =>
        /\ calcular_custo_rota(melhor_rota, matriz_distancias)
               <= calcular_custo_rota(rota, matriz_distancias)
        /\ Len(melhor_rota) = Len(rota)
        /\ melhor_rota[1] = melhor_rota[Len(melhor_rota)]
        /\ IsPermutation(PySlice(melhor_rota, 0, Len(melhor_rota) - 1),
                         Len(matriz_distancias))

C10_Witness ==
    /\ pc = "opt_done"
    /\ Len(matriz_distancias) = 4
    /\ melhor_rota # rota
    /\ calcular_custo_rota(rota, matriz_distancias) # Inf
    /\ calcular_custo_rota(melhor_rota, matriz_distancias)
           < calcular_custo_rota(rota, matriz_distancias)

(***************************************************************************)
(* vizinho_mais_proximo (solver.py 5-56).                                  *)
(***************************************************************************)
\* the scan that takes the first unvisited city, whatever its distance (unless inf)
RECURSIVE vmp_proxima_primeira(_, _, _, _, _, _)
vmp_proxima_primeira(m, cidade_atual, visitadas, candidato, melhor_distancia, proxima_cidade) ==
    IF candidato >= Len(m) THEN proxima_cidade
    ELSE IF candidato \notin visitadas /\ proxima_cidade = -1
              /\ Dist(m, cidade_atual, candidato) < Inf
         THEN vmp_proxima_primeira(m, cidade_atual, visitadas, candidato + 1,
                                   Dist(m, cidade_atual, candidato), candidato)
         ELSE vmp_proxima_primeira(m, cidade_atual, visitadas, candidato + 1,
                                   melhor_distancia, proxima_cidade)

\* for candidato in range(num_cidades): the nearest unvisited city, or -1
RECURSIVE vmp_proxima(_, _, _, _, _, _)
vmp_proxima(m, cidade_atual, visitadas, candidato, melhor_distancia, proxima_cidade) ==
    IF candidato >= Len(m) THEN proxima_cidade
    ELSE IF candidato \notin visitadas /\ Dist(m, cidade_atual, candidato) < melhor_distancia
         THEN vmp_proxima(m, cidade_atual, visitadas, candidato + 1,
                          Dist(m, cidade_atual, candidato), candidato)
         ELSE vmp_proxima(m, cidade_atual, visitadas, candidato + 1,
                          melhor_distancia, proxima_cidade)

\* while len(visitadas) < num_cidades: ... else: break
RECURSIVE vmp_construir(_, _, _, _)
vmp_construir(m, r, visitadas, cidade_atual) ==
    IF Cardinality(visitadas) >= Len(m) THEN r
    ELSE LET proxima_cidade == vmp_proxima(m, cidade_atual, visitadas, 0, Inf, -1)
         IN  IF proxima_cidade # -1
             THEN vmp_construir(m, Append(r, proxima_cidade),
                                visitadas \cup {proxima_cidade}, proxima_cidade)
             ELSE r

\* the route built from cidade_atual, closed by rota.append(rota[0])
vizinho_mais_proximo(m, cidade_atual) ==
    Fechar(vmp_construir(m, <<cidade_atual>>, {cidade_atual}, cidade_atual))

(***************************************************************************)
(* inicializar_populacao (genetico.py 21-61).                              *)
(***************************************************************************)
\* tamanho_populacao // 4 if usar_heuristica and matriz_distancias else 0
num_heuristica(tamanho_populacao, m) ==
    IF Len(m) > 0 THEN tamanho_populacao \div 4 ELSE 0

\* rota_heuristica[:-1] for each start random.randint(0, num_cidades - 1),
\* then shuffled copies of list(range(num_cidades))
PopulacoesIniciais(tamanho_populacao, m) ==
    LET h == num_heuristica(tamanho_populacao, m)
        n == Len(m)
    IN  {[k \in 1..tamanho_populacao |->
             IF k <= h
             THEN LET rota_heuristica == vizinho_mais_proximo(m, inicios[k])
                  IN  PySlice(rota_heuristica, 0, Len(rota_heuristica) - 1)
             ELSE aleatorias[k - h]] :
         inicios \in [1..h -> 0..(n - 1)],
         aleatorias \in [1..(tamanho_populacao - h) -> Perms(n)]}

(***************************************************************************)
(* The calls algoritmo_genetico makes in its breeding loop, each as the    *)
(* set of outcomes [exc, ...] its random draws allow.  exc is "none", the  *)
(* name of the exception raised, or "nao_termina" for a loop that never    *)
(* ends.                                                                   *)
(***************************************************************************)
\* selecao_roleta(populacao_avaliada, 1) / selecao_torneio(populacao_avaliada, 1, t):
\* the routes one draw can select (<<>> when the roulette walk selects nothing)
resultados_selecao(metodo, pa, tamanho) ==
    IF metodo = "roleta"
    THEN IF somar_fitness(pa)[1] = 0
         THEN {<<pa[k][2]>> : k \in 1..Len(pa)}
         ELSE {LET k == roleta_indice(pa, somar_fitness(pa), <<r, Resolution>>, 0, <<0, 1>>)
               IN  IF k = None THEN <<>> ELSE <<At(pa, k)[2]>> :
               r \in 0..(Resolution - 1)}
    ELSE {<<pa[melhor_participante(pa, amostra)][2]>> :
          amostra \in Amostras(Len(pa), Min2(tamanho, Len(pa)))}

\* cruzamento_ox(pai1, pai2) / cruzamento_pmx(pai1, pai2)
resultados_cruzamento(metodo, p1, p2) ==
    LET n == Len(p1)
    IN  IF metodo = "ox"
        THEN IF n < 2
             THEN {[exc |-> "ValueError", filho1 |-> <<>>, filho2 |-> <<>>]}
             ELSE {cruzamento_ox(p1, p2, ab[1], ab[2]) :
                   ab \in {x \in (0..(n - 1)) \X (0..(n - 1)) : x[1] < x[2]}}
        ELSE IF n < 1
             THEN {[exc |-> "ValueError", filho1 |-> <<>>, filho2 |-> <<>>]}
             ELSE {cruzamento_pmx(p1, p2, Min2(ab[1], ab[2]), Max2(ab[1], ab[2])) :
                   ab \in (0..(n - 1)) \X (0..(n - 1))}

\* mutacao_swap(r, p) / mutacao_inversao(r, p)
resultados_mutacao(metodo, r, p) ==
    LET n == Len(r)
        devolve == IF \E s \in 0..(Resolution - 1) : moeda_falha(s, p)
                   THEN {[exc |-> "none", rota |-> r]} ELSE {}
        muta    == IF \A s \in 0..(Resolution - 1) : moeda_falha(s, p) THEN {}
                   ELSE IF n < 1 THEN {[exc |-> "ValueError", rota |-> r]}
                   ELSE IF metodo = "swap"
                        THEN IF n = 1 THEN {[exc |-> "nao_termina", rota |-> r]}
                             ELSE {[exc |-> "none", rota |-> trocar(r, ab[1], ab[2])] :
                                   ab \in {x \in (0..(n - 1)) \X (0..(n - 1)) : x[1] # x[2]}}
                        ELSE {[exc |-> "none", rota |-> inverter(r, ab[1], ab[2])] :
                              ab \in (0..(n - 1)) \X (0..(n - 1))}
    IN  devolve \cup muta

\* if filho != pai1 and filho != pai2: append(filho)
\* else: append(mutacao_inversao(filho, probabilidade_mutacao=1.0))
resultados_anexar(filho, p1, p2) ==
    IF filho # p1 /\ filho # p2 THEN {[exc |-> "none", rota |-> filho]}
    ELSE resultados_mutacao("inversao", filho, Resolution)

(***************************************************************************)
(* algoritmo_genetico (genetico.py 349-473): one run of the driver, one    *)
(* step per phase of a generation and per call of the breeding loop.       *)
(* melhor_rota_global = None is held as the empty route.                   *)
(***************************************************************************)
\* the matrices of a run: complete ones below the largest size, and from
\* two cities on the ones where city n-1 cannot be reached from city n-2
GaMatrizes ==
    {Matriz(n, 1, {}) : n \in 1..(MaxGaCities - 1)}
        \cup {Matriz(n, 1, {<<n - 2, n - 1>>}) : n \in 2..MaxGaCities}

\* the keyword arguments; probabilities and the elitism rate are numerators
\* over Resolution
\* over Resolution; the methods are the defaults of the signature or differ
\* from them in one argument
GaMetodos ==
    {<<"torneio", "ox", "inversao">>, <<"roleta", "ox", "inversao">>,
     <<"torneio", "pmx", "inversao">>, <<"torneio", "ox", "swap">>}

GaParams ==
    {[tamanho_populacao |-> t,
      num_geracoes |-> g,
      probabilidade_cruzamento |-> Resolution - 1,
      probabilidade_mutacao |-> 1,
      metodo_selecao |-> m[1],
      metodo_cruzamento |-> m[2],
      metodo_mutacao |-> m[3],
      tamanho_torneio |-> 2,
      taxa_elitismo |-> 2] :
     t \in {1, MaxGaPop}, g \in 0..MaxGeracoes, m \in GaMetodos}

\* the elite without its floor of one individual
num_elite_sem_minimo(tamanho_populacao, taxa_elitismo) ==
    (tamanho_populacao * taxa_elitismo) \div Resolution

\* max(1, int(tamanho_populacao * taxa_elitismo))
num_elite(tamanho_populacao, taxa_elitismo) ==
    Max2(1, (tamanho_populacao * taxa_elitismo) \div Resolution)

InitGA ==
    /\ pc = "ga_call"
    /\ op = "ga"
    /\ matriz_distancias \in GaMatrizes
    /\ params \in GaParams
    /\ populacao = <<>> /\ nova_populacao = <<>> /\ geracao = 0
    /\ melhor_custo_global = 0 /\ melhor_rota_global = <<>> /\ historico_fitness = <<>>
    /\ excecao = "none"
    /\ MutIdle /\ CxIdle /\ SelIdle /\ CostIdle /\ OptIdle
    /\ HeurIdle

gaOthers == <<op, envVars, heurVars, mutVars, costVars, optVars, params,
              num_pais, tamanho_torneio, pais_selecionados, contador, ponto1, ponto2>>

\* an exception leaves the driver, or a loop of a callee never ends
Levantar(e) ==
    /\ pc' = IF e = "nao_termina" THEN "ga_nao_termina" ELSE "ga_raised"
    /\ excecao' = IF e = "nao_termina" THEN "none" ELSE e

\* populacao = inicializar_populacao(...); melhor_custo_global = float('inf'); ...
GaInicializar ==
    /\ pc = "ga_call"
    /\ populacao' \in PopulacoesIniciais(params.tamanho_populacao, matriz_distancias)
    /\ melhor_custo_global' = Inf
    /\ melhor_rota_global' = <<>>
    /\ historico_fitness' = <<>>
    /\ geracao' = 0
    /\ pc' = "ga_geracao"
    /\ UNCHANGED <<nova_populacao, excecao, populacao_avaliada, pai1, pai2, filho1, filho2,
                   gaOthers>>

\* calcular_custo_rota indexes the matrix with every node of a route that is
\* long enough: a None left in a child raises TypeError
avaliacao_levanta(pop, m) ==
    \E k \in 1..Len(pop) : Len(pop[k]) >= Len(m) /\ In(None, pop[k])

\* populacao_avaliada = avaliar_populacao(...); update of the best so far;
\* historico_fitness.append(...); nova_populacao = the elite
GaAvaliar ==
    /\ pc = "ga_geracao"
    /\ geracao < params.num_geracoes
    /\ IF avaliacao_levanta(populacao, matriz_distancias)
       THEN /\ Levantar("TypeError")
            /\ UNCHANGED <<populacao_avaliada, melhor_custo_global, melhor_rota_global,
                           historico_fitness, nova_populacao>>
       ELSE LET pa == avaliar_populacao(populacao, matriz_distancias)
                rota_completa == Fechar(pa[1][2])
                custo_geracao == calcular_custo_rota(rota_completa, matriz_distancias)
            IN  /\ populacao_avaliada' = pa
                /\ melhor_custo_global' =
                       IF custo_geracao < melhor_custo_global
                       THEN custo_geracao ELSE melhor_custo_global
                /\ melhor_rota_global' =
                       IF custo_geracao < melhor_custo_global
                       THEN rota_completa ELSE melhor_rota_global
                /\ historico_fitness' = Append(historico_fitness, pa[1][1])
                /\ nova_populacao' =
                       [k \in 1..Min2(num_elite(params.tamanho_populacao,
                                                params.taxa_elitismo), Len(pa)) |-> pa[k][2]]
                /\ pc' = "ga_laco"
                /\ excecao' = excecao
    /\ UNCHANGED <<populacao, geracao, pai1, pai2, filho1, filho2, gaOthers>>

\* while len(nova_populacao) < tamanho_populacao: pais = selecao_...(.., 2);
\* pai1, pai2 = pais[0], pais[1]
GaSelecionar ==
    /\ pc = "ga_laco"
    /\ Len(nova_populacao) < params.tamanho_populacao
    /\ \E s1, s2 \in resultados_selecao(params.metodo_selecao, populacao_avaliada,
                                        params.tamanho_torneio) :
          LET pais == s1 \o s2
          IN  IF Len(pais) < 2
              THEN Levantar("IndexError") /\ UNCHANGED <<pai1, pai2>>
              ELSE /\ pai1' = pais[1] /\ pai2' = pais[2]
                   /\ pc' = "ga_cruzar" /\ excecao' = excecao
    /\ UNCHANGED <<populacao, nova_populacao, geracao, melhor_custo_global,
                   melhor_rota_global, historico_fitness, populacao_avaliada,
                   filho1, filho2, gaOthers>>

\* if random.random() < probabilidade_cruzamento: filho1, filho2 = cruzamento_...(pai1, pai2)
\* else: filho1, filho2 = pai1.copy(), pai2.copy()
GaCruzar ==
    /\ pc = "ga_cruzar"
    /\ \E r \in 0..(Resolution - 1) :
          IF r < params.probabilidade_cruzamento
          THEN \E c \in resultados_cruzamento(params.metodo_cruzamento, pai1, pai2) :
                  IF c.exc # "none"
                  THEN Levantar(c.exc) /\ UNCHANGED <<filho1, filho2>>
                  ELSE /\ filho1' = c.filho1 /\ filho2' = c.filho2
                       /\ pc' = "ga_mutar" /\ excecao' = excecao
          ELSE /\ filho1' = pai1 /\ filho2' = pai2
               /\ pc' = "ga_mutar" /\ excecao' = excecao
    /\ UNCHANGED <<populacao, nova_populacao, geracao, melhor_custo_global,
                   melhor_rota_global, historico_fitness, populacao_avaliada,
                   pai1, pai2, gaOthers>>

\* the second child is appended whatever the size reached
cabe_segundo_sempre(tamanho_atual, tamanho_populacao) == TRUE

\* if len(nova_populacao) < tamanho_populacao, after the first child
cabe_segundo(tamanho_atual, tamanho_populacao) == tamanho_atual < tamanho_populacao

\* filho1 = mutacao_...(filho1, p); filho2 = mutacao_...(filho2, p);
\* nova_populacao.append(filho1 or its forced inversion);
\* if len(nova_populacao) < tamanho_populacao: the same for filho2.
\* The locals of the iteration are dead after it and are cleared.
GaMutarAnexar ==
    /\ pc = "ga_mutar"
    /\ \E m1 \in resultados_mutacao(params.metodo_mutacao, filho1,
                                    params.probabilidade_mutacao) :
          IF m1.exc # "none"
          THEN Levantar(m1.exc) /\ UNCHANGED nova_populacao
          ELSE \E m2 \in resultados_mutacao(params.metodo_mutacao, filho2,
                                            params.probabilidade_mutacao) :
             IF m2.exc # "none"
             THEN Levantar(m2.exc) /\ UNCHANGED nova_populacao
             ELSE \E a1 \in resultados_anexar(m1.rota, pai1, pai2) :
                IF a1.exc # "none"
                THEN Levantar(a1.exc) /\ UNCHANGED nova_populacao
                ELSE IF cabe_segundo(Len(nova_populacao) + 1, params.tamanho_populacao)
                     THEN \E a2 \in resultados_anexar(m2.rota, pai1, pai2) :
                             IF a2.exc # "none"
                             THEN /\ Levantar(a2.exc)
                                  /\ nova_populacao' = Append(nova_populacao, a1.rota)
                             ELSE /\ nova_populacao' =
                                         Append(Append(nova_populacao, a1.rota), a2.rota)
                                  /\ pc' = "ga_laco" /\ excecao' = excecao
                     ELSE /\ nova_populacao' = Append(nova_populacao, a1.rota)
                          /\ pc' = "ga_laco" /\ excecao' = excecao
    /\ IF pc' = "ga_laco"
       THEN pai1' = <<>> /\ pai2' = <<>> /\ filho1' = <<>> /\ filho2' = <<>>
       ELSE UNCHANGED <<pai1, pai2, filho1, filho2>>
    /\ UNCHANGED <<populacao, geracao, melhor_custo_global, melhor_rota_global,
                   historico_fitness, populacao_avaliada, gaOthers>>

\* populacao = nova_populacao; next generation
GaSubstituir ==
    /\ pc = "ga_laco"
    /\ Len(nova_populacao) >= params.tamanho_populacao
    /\ populacao' = nova_populacao
    /\ geracao' = geracao + 1
    /\ pc' = "ga_geracao"
    /\ UNCHANGED <<nova_populacao, melhor_custo_global, melhor_rota_global,
                   historico_fitness, excecao, populacao_avaliada,
                   pai1, pai2, filho1, filho2, gaOthers>>

\* return melhor_rota_global, melhor_custo_global, historico_fitness
GaRetornar ==
    /\ pc = "ga_geracao"
    /\ geracao >= params.num_geracoes
    /\ pc' = "ga_done"
    /\ UNCHANGED <<gaVars, populacao_avaliada, pai1, pai2, filho1, filho2,
                   op, envVars, heurVars, mutVars, costVars, optVars,
                   num_pais, tamanho_torneio, pais_selecionados, contador, ponto1, ponto2>>

NextGA ==
    \/ GaInicializar \/ GaAvaliar \/ GaSelecionar \/ GaCruzar
    \/ GaMutarAnexar \/ GaSubstituir \/ GaRetornar

SpecGA == InitGA /\ [][NextGA]_vars

\* C5: on a matrix of two or more cities the genetic driver raises no
\* exception and every generation completes, also when Nearest-Neighbor
\* seeding leaves partial routes in the population; the infeasible
\* individuals only get fitness 0
C5_DriverRaisesNoException ==
    Len(matriz_distancias) >= 2 =>
        /\ excecao = "none"
        /\ pc # "ga_raised" /\ pc # "ga_nao_termina"
        /\ \A k \in 1..Len(populacao_avaliada) :
              Len(populacao_avaliada[k][2]) < Len(matriz_distancias)
                  => populacao_avaliada[k][1] = <<0, 1>>

(***************************************************************************)
(* vizinho_mais_proximo (solver.py 5-56) step by step: one city per step   *)
(* of the while loop, then the closing append; the caller then prices the  *)
(* route with calcular_custo_rota.  visitadas is the set of the cities of  *)
(* rota and cidade_atual its last city, as the loop keeps them.            *)
(***************************************************************************)
\* every off-diagonal entry equal: every choice of the scan is a tie
MatrizUniforme(n) == [a \in 1..n |-> [b \in 1..n |-> IF a = b THEN 0 ELSE 1]]

NnMatrizes ==
    UNION {Matrizes(n) \cup {MatrizUniforme(n)} : n \in 1..MaxCostCities}
        \cup {MatrizExemplo}

\* the step that moves on through an unreachable pair instead of stopping
vmp_passo_sem_parada(m, r) ==
    LET p == vmp_proxima(m, r[Len(r)], SetOf(r), 0, Inf, -1)
    IN  IF p # -1 THEN p ELSE CHOOSE c \in 0..(Len(m) - 1) : c \notin SetOf(r)

\* proxima_cidade after the for loop, for the route built so far
vmp_passo(m, r) == vmp_proxima(m, r[Len(r)], SetOf(r), 0, Inf, -1)

InitNN ==
    /\ pc = "nn_call"
    /\ op \in {"vmp_fixo", "vmp_aleatorio"}
    /\ matriz_distancias \in NnMatrizes
    /\ cidade_inicial \in 0..(Len(matriz_distancias) - 1)
    /\ op = "vmp_aleatorio" => cidade_inicial = 0
    /\ vertice_inicial = 0 /\ cidade_inicial_fixa = 0
    /\ r_estrela = -1 /\ melhor_pos = -1
    /\ MutIdle /\ CxIdle /\ SelIdle /\ CostIdle /\ OptIdle /\ GaIdle

nnOthers == <<op, matriz_distancias, heurVars, probabilidade_mutacao, sorteio, pos1, pos2,
              origem, destino, rota_mutada, cxVars, selVars, fitness, optVars, gaVars>>

\* cidade_atual = random.randint(0, n - 1) if inicio_aleatorio else cidade_inicial;
\* rota = [cidade_atual]
NnIniciar ==
    /\ pc = "nn_call"
    /\ \E cidade_atual \in 0..(Len(matriz_distancias) - 1) :
          /\ op = "vmp_fixo" => cidade_atual = cidade_inicial
          /\ rota' = <<cidade_atual>>
    /\ pc' = "nn_loop"
    /\ UNCHANGED <<custo, nnOthers>>

\* if proxima_cidade != -1: rota.append(proxima_cidade)
NnMover ==
    /\ pc = "nn_loop"
    /\ Cardinality(SetOf(rota)) < Len(matriz_distancias)
    /\ vmp_passo(matriz_distancias, rota) # -1
    /\ rota' = Append(rota, vmp_passo(matriz_distancias, rota))
    /\ UNCHANGED <<pc, custo, nnOthers>>

\* else: break; then rota.append(rota[0])
NnParar ==
    /\ pc = "nn_loop"
    /\ Cardinality(SetOf(rota)) < Len(matriz_distancias)
    /\ vmp_passo(matriz_distancias, rota) = -1
    /\ rota' = Fechar(rota)
    /\ pc' = "nn_done"
    /\ UNCHANGED <<custo, nnOthers>>

\* the while condition fails; rota.append(rota[0])
NnFechar ==
    /\ pc = "nn_loop"
    /\ Cardinality(SetOf(rota)) >= Len(matriz_distancias)
    /\ rota' = Fechar(rota)
    /\ pc' = "nn_done"
    /\ UNCHANGED <<custo, nnOthers>>

\* the caller: custo = calcular_custo_rota(rota, matriz_distancias)
NnCusto ==
    /\ pc = "nn_done"
    /\ custo' = calcular_custo_rota(rota, matriz_distancias)
    /\ pc' = "nn_custo"
    /\ UNCHANGED <<rota, nnOthers>>

NextNN == NnIniciar \/ NnMover \/ NnParar \/ NnFechar \/ NnCusto

SpecNN == InitNN /\ [][NextNN]_vars

\* C11 as stated: on the example matrix Nearest-Neighbor started at node 0
\* returns the route [0,1,2,3,0], and calcular_custo_rota prices it at 3
C11_ExampleRouteAndCost ==
    (/\ matriz_distancias = MatrizExemplo
     /\ pc \in {"nn_done", "nn_custo"}
     /\ rota[1] = 0) =>
        /\ rota = <<0, 1, 2, 3, 0>>
        /\ pc = "nn_custo" => custo = 3

\* C11 amended: the route is [0,1,2,3,0] and its cost is 12, the three unit
\* edges and the return edge 3 -> 0 of cost 9
C11_ExampleRouteCostsTwelve ==
    (/\ matriz_distancias = MatrizExemplo
     /\ pc \in {"nn_done", "nn_custo"}
     /\ rota[1] = 0) =>
        /\ rota = <<0, 1, 2, 3, 0>>
        /\ pc = "nn_custo" =>
              custo = Dist(MatrizExemplo, 0, 1) + Dist(MatrizExemplo, 1, 2)
                          + Dist(MatrizExemplo, 2, 3) + Dist(MatrizExemplo, 3, 0)
        /\ pc = "nn_custo" => custo = 12

C11_Witness ==
    /\ matriz_distancias = MatrizExemplo
    /\ op = "vmp_fixo" /\ cidade_inicial = 0
    /\ pc = "nn_custo"

\* no unvisited city has a finite cost from the last city of the route
SemVizinho ==
    /\ Cardinality(SetOf(rota)) < Len(matriz_distancias)
    /\ \A c \in (0..(Len(matriz_distancias) - 1)) \ SetOf(rota) :
          Dist(matriz_distancias, rota[Len(rota)], c) = Inf

\* C16: when no unvisited node has a finite cost from the current node the
\* construction stops, the start node is appended, the route returned is
\* shorter than N+1 and calcular_custo_rota gives it the infinite cost
C16_StuckReturnsPartialRoute ==
    /\ [][(pc = "nn_loop" /\ SemVizinho) =>
             /\ pc' = "nn_done"
             /\ rota' = Append(rota, rota[1])
             /\ Len(rota') < Len(matriz_distancias) + 1]_vars
    /\ []((pc = "nn_custo" /\ Len(rota) < Len(matriz_distancias) + 1) => custo = Inf)

C16_Witness ==
    /\ pc = "nn_custo"
    /\ Len(matriz_distancias) = 3
    /\ Len(rota) = 3
    /\ rota[1] # rota[2]

\* every off-diagonal entry of the matrix is finite
MatrizFinita ==
    \A a, b \in 1..Len(matriz_distancias) : matriz_distancias[a][b] # Inf

\* C18: on a matrix with finite off-diagonal entries and a fixed start s the
\* route returned has N+1 nodes, starts and ends at s, visits every node
\* once, and each node after the first is the unvisited node of minimum cost
\* from its predecessor, the lowest index among equals (which leaves one
\* possible route for a given matrix and s)
C18_GreedyClosedRoute ==
    (pc \in {"nn_done", "nn_custo"} /\ op = "vmp_fixo" /\ MatrizFinita) =>
        LET n == Len(matriz_distancias)
        IN  /\ Len(rota) = n + 1
            /\ rota[1] = cidade_inicial /\ rota[n + 1] = cidade_inicial
            /\ IsPermutation(PySlice(rota, 0, n), n)
            /\ \A k \in 2..n :
                  \A c \in (0..(n - 1)) \ {rota[q] : q \in 1..k} :
                      LET dk == Dist(matriz_distancias, rota[k - 1], rota[k])
                          dc == Dist(matriz_distancias, rota[k - 1], c)
                      IN  dk < dc \/ (dk = dc /\ rota[k] < c)

C18_Witness ==
    /\ pc = "nn_done" /\ op = "vmp_fixo"
    /\ matriz_distancias = MatrizUniforme(3)
    /\ cidade_inicial = 1

(***************************************************************************)
(* algoritmo_genetico on complete matrices of three or more cities: the    *)
(* same steps as SpecGA, with every population size up to MaxPopFinita,    *)
(* elitism rates 0, (Resolution-1)/Resolution and 1, and up to             *)
(* MaxGeracoesFinita generations.                                          *)
(***************************************************************************)
GaMatrizesFinitas == {Matriz(n, 1, {}) : n \in 3..MaxGaCities}

GaParamsFinitos ==
    {[tamanho_populacao |-> t,
      num_geracoes |-> g,
      probabilidade_cruzamento |-> Resolution - 1,
      probabilidade_mutacao |-> 1,
      metodo_selecao |-> m[1],
      metodo_cruzamento |-> m[2],
      metodo_mutacao |-> m[3],
      tamanho_torneio |-> 2,
      taxa_elitismo |-> e] :
     t \in 1..MaxPopFinita, g \in 0..MaxGeracoesFinita, m \in GaMetodos,
     e \in {0, Resolution - 1, Resolution}}

InitGAFinita ==
    /\ pc = "ga_call"
    /\ op = "ga"
    /\ matriz_distancias \in GaMatrizesFinitas
    /\ params \in GaParamsFinitos
    /\ populacao = <<>> /\ nova_populacao = <<>> /\ geracao = 0
    /\ melhor_custo_global = 0 /\ melhor_rota_global = <<>> /\ historico_fitness = <<>>
    /\ excecao = "none"
    /\ HeurIdle /\ MutIdle /\ CxIdle /\ SelIdle /\ CostIdle /\ OptIdle

SpecGAFinita == InitGAFinita /\ [][NextGA]_vars

\* ceil(tamanho_populacao * taxa_elitismo), at least 1
EliteDoEnunciado ==
    Max2(1, (params.tamanho_populacao * params.taxa_elitismo + Resolution - 1)
                \div Resolution)

\* C12: while a next population is being bred it starts with the top
\* ceil(pop_size * elitism_rate) individuals of the ranked population (at
\* least 1), unchanged and in rank order
C12_EliteIsCeilOfRate ==
    pc \in {"ga_laco", "ga_cruzar", "ga_mutar"} =>
        /\ Len(nova_populacao) >= EliteDoEnunciado
        /\ \A k \in 1..EliteDoEnunciado :
              nova_populacao[k] = populacao_avaliada[k][2]

\* h is the highest fitness of the routes of pop
MaiorFitness(h, pop) ==
    /\ \E k \in 1..Len(pop) : h = calcular_fitness(pop[k], matriz_distancias)
    /\ \A k \in 1..Len(pop) : ~RatLt(h, calcular_fitness(pop[k], matriz_distancias))

\* steps the run can still take at most: generations left, then the slots
\* of the next population still to fill, then the phase of the iteration
PassosRestantes ==
    LET t    == params.tamanho_populacao
        base == (params.num_geracoes - geracao) * (3 * t + 5)
    IN  CASE pc = "ga_done"    -> 0
          [] pc = "ga_call"    -> base + 3 * t + 5
          [] pc = "ga_geracao" -> base + 3 * t + 4
          [] pc = "ga_laco"    -> base + 3 * (t - Len(nova_populacao)) + 3
          [] pc = "ga_cruzar"  -> base + 3 * (t - Len(nova_populacao)) + 2
          [] pc = "ga_mutar"   -> base + 3 * (t - Len(nova_populacao)) + 1
          [] OTHER             -> 0

\* the step the driver is at can be taken: the evaluation, the replacement
\* and the return have no condition beyond the position they start from
PodeAvancar ==
    /\ pc = "ga_call" => ENABLED GaInicializar
    /\ (pc = "ga_laco" /\ Len(nova_populacao) < params.tamanho_populacao) =>
          resultados_selecao(params.metodo_selecao, populacao_avaliada,
                             params.tamanho_torneio) # {}
    /\ pc = "ga_cruzar" => ENABLED GaCruzar
    /\ pc = "ga_mutar" => ENABLED GaMutarAnexar

FitnessDoCusto(c) == IF c = Inf THEN <<0, 1>> ELSE <<1, c + 1>>

\* C14: at the return the driver hands back a closed route (N+1 nodes, the
\* first equal to the last, every city once) and a cost that is
\* calcular_custo_rota of that route and the lowest cost of a top-ranked
\* individual over the evaluated generations (the highest entry of the
\* history read back as a cost), on every matrix and generation count
C14_ReturnsBestClosedRoute ==
    pc = "ga_done" =>
        LET n == Len(matriz_distancias)
        IN  /\ Len(melhor_rota_global) = n + 1
            /\ melhor_rota_global[1] = melhor_rota_global[n + 1]
            /\ IsPermutation(SubSeq(melhor_rota_global, 1, n), n)
            /\ melhor_custo_global =
                   calcular_custo_rota(melhor_rota_global, matriz_distancias)
            /\ \A k \in 1..Len(historico_fitness) :
                   ~RatLt(FitnessDoCusto(melhor_custo_global), historico_fitness[k])
            /\ historico_fitness # <<>> =>
                   \E k \in 1..Len(historico_fitness) :
                       historico_fitness[k] = FitnessDoCusto(melhor_custo_global)

(***************************************************************************)
(* algoritmo_memetico (memetico.py 182-347).  Its first statement calls    *)
(* inicializar_populacao of genetico.py with a keyword the function does   *)
(* not declare; Python binds the arguments before the body runs.           *)
(***************************************************************************)
\* def inicializar_populacao(tamanho_populacao, num_cidades,
\*                           usar_heuristica=True, matriz_distancias=None)
inicializar_populacao_parametros ==
    {"tamanho_populacao", "num_cidades", "usar_heuristica", "matriz_distancias"}

\* the names the call of memetico.py 226-229 binds (two positional, three
\* keyword arguments)
MemArgumentosInicializar ==
    {"tamanho_populacao", "num_cidades", "usar_heuristica", "matriz_distancias",
     "cidade_inicial_fixa"}

MemMatrizes == GaMatrizes \cup GaMatrizesFinitas

InitMem ==
    /\ pc = "mem_call"
    /\ op = "memetico"
    /\ matriz_distancias \in MemMatrizes
    /\ params \in GaParams
    /\ cidade_inicial_fixa \in 0..(Len(matriz_distancias) - 1)
    /\ cidade_inicial = 0 /\ vertice_inicial = 0
    /\ r_estrela = -1 /\ melhor_pos = -1
    /\ populacao = <<>> /\ nova_populacao = <<>> /\ geracao = 0
    /\ melhor_custo_global = 0 /\ melhor_rota_global = <<>> /\ historico_fitness = <<>>
    /\ excecao = "none"
    /\ MutIdle /\ CxIdle /\ SelIdle /\ CostIdle /\ OptIdle

\* populacao = inicializar_populacao(tamanho_populacao, num_cidades,
\*     usar_heuristica=True, matriz_distancias=matriz_distancias,
\*     cidade_inicial_fixa=cidade_inicial_fixa)
MemInicializar ==
    /\ pc = "mem_call"
    /\ IF MemArgumentosInicializar \subseteq inicializar_populacao_parametros
       THEN /\ populacao' \in PopulacoesIniciais(params.tamanho_populacao, matriz_distancias)
            /\ melhor_custo_global' = Inf
            /\ pc' = "mem_geracao"
            /\ excecao' = excecao
       ELSE /\ pc' = "mem_raised"
            /\ excecao' = "TypeError"
            /\ UNCHANGED <<populacao, melhor_custo_global>>
    /\ UNCHANGED <<nova_populacao, geracao, melhor_rota_global, historico_fitness,
                   populacao_avaliada, pai1, pai2, filho1, filho2, gaOthers>>

NextMem == MemInicializar

SpecMem == InitMem /\ [][NextMem]_vars

\* C15: the memetic driver raises no exception and runs generation after
\* generation to its return, where the history has one entry per generation
C15_MemeticReachesDone ==
    op = "memetico" =>
        /\ excecao = "none"
        /\ pc # "mem_raised"
        /\ pc = "mem_done" => Len(historico_fitness) = params.num_geracoes

(***************************************************************************)
(* busca_local_2_opt, busca_local_shift, busca_local_swap,                 *)
(* busca_local_inversao (memetico.py 97-179): len(rota) attempts, each a   *)
(* move on the best route so far with probability 1.0, kept when cheaper.  *)
(* rota_mutada holds the route of the last attempt (nova), contador the    *)
(* attempts made.                                                          *)
(***************************************************************************)
\* lista.index(x) of a list that holds x
PyIndex(r, x) == (CHOOSE k \in 1..Len(r) : r[k] = x /\ \A j \in 1..(k - 1) : r[j] # x) - 1

\* the attempt left as the move returned it
recolocar_sem_troca(nova, fixa) == nova

\* if nova[0] != cidade_inicial_fixa: idx = nova.index(cidade_inicial_fixa);
\* nova[0], nova[idx] = nova[idx], nova[0]
recolocar(nova, fixa) ==
    IF nova[1] # fixa THEN trocar(nova, 0, PyIndex(nova, fixa)) ELSE nova

\* mutacao_shift(r, probabilidade_mutacao=1.0, ...)
movimentos_shift(r) ==
    IF Len(r) < 3 THEN {r}
    ELSE {deslocar(r, od[1], od[2]) :
          od \in {x \in (1..(Len(r) - 1)) \X (1..(Len(r) - 1)) : x[1] # x[2]}}

\* mutacao_2_opt(r, probabilidade_mutacao=1.0, ...)
movimentos_2_opt(r) ==
    IF Len(r) < 3 THEN {r}
    ELSE {inverter_2opt(r, ij[1], ij[2]) :
          ij \in {x \in (1..(Len(r) - 2)) \X (2..(Len(r) - 1)) : x[1] < x[2]}}

\* nova of one attempt of the search named by op
tentativas(busca, r, fixa) ==
    IF busca = "busca_local_shift" THEN movimentos_shift(r)
    ELSE IF busca = "busca_local_2_opt" THEN movimentos_2_opt(r)
    ELSE {recolocar(x.rota, fixa) :
          x \in resultados_mutacao(IF busca = "busca_local_swap" THEN "swap" ELSE "inversao",
                                   r, Resolution)}

BlBuscas ==
    {"busca_local_2_opt", "busca_local_shift", "busca_local_swap", "busca_local_inversao"}

\* complete matrices: every distance table for the smaller sizes, one for
\* the largest
BlMatrizes ==
    {Matriz(n, s, {}) : n \in 1..(MaxCities - 1), s \in 1..MaxSeed}
        \cup {Matriz(MaxCities, 1, {})}

InitBL ==
    /\ pc = "bl_call"
    /\ op \in BlBuscas
    /\ matriz_distancias \in BlMatrizes
    /\ rota \in Perms(Len(matriz_distancias))
    /\ cidade_inicial_fixa \in {0, rota[1]}
    /\ cidade_inicial = 0 /\ vertice_inicial = 0
    /\ r_estrela = -1 /\ melhor_pos = -1
    /\ probabilidade_mutacao = 0 /\ sorteio = 0
    /\ pos1 = 0 /\ pos2 = 0 /\ origem = 0 /\ destino = 0 /\ rota_mutada = <<>>
    /\ CxIdle /\ SelIdle /\ CostIdle /\ OptIdle /\ GaIdle

blOthers == <<op, envVars, heurVars, rota, probabilidade_mutacao, sorteio, pos1, pos2,
              origem, destino, cxVars, populacao_avaliada, num_pais, tamanho_torneio,
              pais_selecionados, costVars, melhoria, idx_i, idx_j, gaVars>>

\* melhor_rota = rota; melhor_custo = calcular_custo_rota(rota + [rota[0]], ...);
\* busca_local_swap / busca_local_inversao: if n < 3: return rota
BlIniciar ==
    /\ pc = "bl_call"
    /\ melhor_rota' = rota
    /\ melhor_custo' = calcular_custo_rota(Fechar(rota), matriz_distancias)
    /\ contador' = 0
    /\ pc' = IF op \in {"busca_local_swap", "busca_local_inversao"} /\ Len(rota) < 3
             THEN "bl_done" ELSE "bl_loop"
    /\ UNCHANGED <<rota_mutada, blOthers>>

\* the attempt is kept whatever it costs
bl_aceita_sempre(novo_custo, custo_atual) == TRUE

\* if novo_custo < melhor_custo
bl_aceita(novo_custo, custo_atual) == novo_custo < custo_atual

\* one pass of 'for _ in range(len(rota))'
BlTentar ==
    /\ pc = "bl_loop"
    /\ contador < Len(rota)
    /\ \E nova \in tentativas(op, melhor_rota, cidade_inicial_fixa) :
          LET novo_custo == calcular_custo_rota(Fechar(nova), matriz_distancias)
          IN  /\ rota_mutada' = nova
              /\ melhor_rota' = IF bl_aceita(novo_custo, melhor_custo)
                                 THEN nova ELSE melhor_rota
              /\ melhor_custo' = IF bl_aceita(novo_custo, melhor_custo)
                                  THEN novo_custo ELSE melhor_custo
    /\ contador' = contador + 1
    /\ UNCHANGED <<pc, blOthers>>

\* return melhor_rota
BlRetornar ==
    /\ pc = "bl_loop"
    /\ contador >= Len(rota)
    /\ pc' = "bl_done"
    /\ UNCHANGED <<melhor_rota, melhor_custo, contador, rota_mutada, blOthers>>

NextBL == BlIniciar \/ BlTentar \/ BlRetornar

SpecBL == InitBL /\ [][NextBL]_vars

\* C17: on a route of three or more cities that starts with the fixed city,
\* the route of every attempt (the result of mutacao_shift, mutacao_2_opt,
\* or of the swap / inversion put back in place) and the route every local
\* search returns start with the fixed city and hold the cities of the
\* input once each
C17_LocalSearchKeepsStartAndCities ==
    (op \in BlBuscas /\ Len(rota) >= 3 /\ rota[1] = cidade_inicial_fixa) =>
        /\ (pc = "bl_loop" /\ contador > 0) =>
              /\ rota_mutada[1] = cidade_inicial_fixa
              /\ IsPermutation(rota_mutada, Len(rota))
        /\ pc = "bl_done" =>
              /\ melhor_rota[1] = cidade_inicial_fixa
              /\ IsPermutation(melhor_rota, Len(rota))

C17_Witness ==
    /\ pc = "bl_done" /\ op = "busca_local_inversao"
    /\ Len(rota) = 4 /\ rota[1] = cidade_inicial_fixa
    /\ melhor_rota # rota

(***************************************************************************)
(* insercao_mais_barata (solver.py 58-140): the initial cycle [s, v0, s],  *)
(* then one insertion per pass of 'while R'.  C is the set of the cities   *)
(* of rota and R the cities not in it, as the loop keeps them.             *)
(***************************************************************************)
\* for v in range(num_cidades): if v != vertice_inicial:
\*     if distancia < menor_distancia: menor_distancia = distancia; v0 = v
RECURSIVE imb_v0(_, _, _, _, _)
imb_v0(m, s, v, menor_distancia, v0) ==
    IF v >= Len(m) THEN v0
    ELSE IF v # s /\ Dist(m, s, v) < menor_distancia
         THEN imb_v0(m, s, v + 1, Dist(m, s, v), v)
         ELSE imb_v0(m, s, v + 1, menor_distancia, v0)

\* dist_r = min(matriz_distancias[r][c] for c in C), starting from inf
imb_dist_r(m, r, C) ==
    IF \A c \in C : Dist(m, r, c) = Inf THEN Inf
    ELSE CHOOSE d \in {Dist(m, r, c) : c \in C} : \A c \in C : d <= Dist(m, r, c)

\* the cities 'for r in R: if dist_r < menor_dist_ao_ciclo' can end on: a
\* city of least dist_r; which of several the scan meets first is the
\* iteration order of the set R
imb_candidatos(m, C, R) ==
    {r \in R : /\ imb_dist_r(m, r, C) < Inf
               /\ \A q \in R : imb_dist_r(m, r, C) <= imb_dist_r(m, q, C)}

\* d(u, r*) + d(r*, v) - d(u, v) for u = rota[i - 1], v = rota[i]
imb_custo(m, r, rt, i) ==
    Dist(m, At(rt, i - 1), r) + Dist(m, r, At(rt, i)) - Dist(m, At(rt, i - 1), At(rt, i))

\* the scan that also prices the pair closing the cycle: ends at len(rota)
RECURSIVE imb_melhor_pos_ciclo(_, _, _, _, _, _)
imb_melhor_pos_ciclo(m, r, rt, i, melhor, pos) ==
    IF i >= Len(rt) THEN pos
    ELSE IF imb_custo(m, r, rt, i) < melhor
         THEN imb_melhor_pos_ciclo(m, r, rt, i + 1, imb_custo(m, r, rt, i), i)
         ELSE imb_melhor_pos_ciclo(m, r, rt, i + 1, melhor, pos)

\* for i in range(1, len(rota) - 1): if custo < melhor_custo: melhor_pos = i
RECURSIVE imb_melhor_pos(_, _, _, _, _, _)
imb_melhor_pos(m, r, rt, i, melhor, pos) ==
    IF i >= Len(rt) - 1 THEN pos
    ELSE IF imb_custo(m, r, rt, i) < melhor
         THEN imb_melhor_pos(m, r, rt, i + 1, imb_custo(m, r, rt, i), i)
         ELSE imb_melhor_pos(m, r, rt, i + 1, melhor, pos)

\* symmetric distance table
MatrizSimetrica(n, s) ==
    [a \in 1..n |-> [b \in 1..n |-> BaseDist(s, Min2(a, b) - 1, Max2(a, b) - 1)]]

\* symmetric, triangle inequality holds; from city 0 the cheapest place for
\* the last city is the pair that closes the cycle
MatrizFecho ==
    <<<<0, 1, 1, 1>>, <<1, 0, 1, 1>>, <<1, 1, 0, 2>>, <<1, 1, 2, 0>>>>

ImbMatrizes ==
    UNION {{Matriz(n, s, {}), MatrizSimetrica(n, s)} : n \in 1..MaxCities, s \in 1..MaxSeed}
        \cup {MatrizFecho, MatrizExemplo}

InitIMB ==
    /\ pc = "imb_call"
    /\ op = "insercao_mais_barata"
    /\ matriz_distancias \in ImbMatrizes
    /\ vertice_inicial \in 0..(Len(matriz_distancias) - 1)
    /\ cidade_inicial = 0 /\ cidade_inicial_fixa = 0
    /\ r_estrela = -1 /\ melhor_pos = -1
    /\ MutIdle /\ CxIdle /\ SelIdle /\ CostIdle /\ OptIdle /\ GaIdle

imbOthers == <<op, envVars, cidade_inicial, vertice_inicial, cidade_inicial_fixa,
               probabilidade_mutacao, sorteio, pos1, pos2, origem, destino, rota_mutada,
               cxVars, selVars, costVars, optVars, gaVars>>

\* rota = [vertice_inicial, v0, vertice_inicial]
ImbIniciar ==
    /\ pc = "imb_call"
    /\ rota' = <<vertice_inicial,
                 imb_v0(matriz_distancias, vertice_inicial, 0, Inf, -1),
                 vertice_inicial>>
    /\ pc' = "imb_loop"
    /\ UNCHANGED <<r_estrela, melhor_pos, imbOthers>>

\* while R: choose r*, find melhor_pos, rota.insert(melhor_pos, r_estrela)
ImbInserir ==
    /\ pc = "imb_loop"
    /\ \E r \in imb_candidatos(matriz_distancias, SetOf(rota),
                                (0..(Len(matriz_distancias) - 1)) \ SetOf(rota)) :
          LET p == imb_melhor_pos(matriz_distancias, r, rota, 1, Inf, -1)
          IN  /\ r_estrela' = r
              /\ melhor_pos' = p
              /\ rota' = PyInsert(rota, p, r)
    /\ UNCHANGED <<pc, imbOthers>>

\* R is empty: return rota
ImbRetornar ==
    /\ pc = "imb_loop"
    /\ (0..(Len(matriz_distancias) - 1)) \ SetOf(rota) = {}
    /\ pc' = "imb_done"
    /\ UNCHANGED <<rota, r_estrela, melhor_pos, imbOthers>>

NextIMB == ImbIniciar \/ ImbInserir \/ ImbRetornar

SpecIMB == InitIMB /\ [][NextIMB]_vars

\* the cycle before its last insertion
ImbRotaAntes == PySlice(rota, 0, melhor_pos) \o PySlice(rota, melhor_pos + 1, Len(rota))

\* C19: every inserted city sits at the first position of least
\* d(prev, r) + d(r, next) - d(prev, next) over all consecutive pairs of the
\* cycle it was inserted in, the pair closing the cycle included; on a
\* finite matrix of two or more cities the returned route has N+1 nodes,
\* is closed and visits every city once
C19_InsertsAtCheapestPosition ==
    op = "insercao_mais_barata" =>
        /\ (pc \in {"imb_loop", "imb_done"} /\ r_estrela # -1) =>
              melhor_pos = imb_melhor_pos_ciclo(matriz_distancias, r_estrela,
                                                ImbRotaAntes, 1, Inf, -1)
        /\ (pc = "imb_done" /\ Len(matriz_distancias) >= 2) =>
              /\ Len(rota) = Len(matriz_distancias) + 1
              /\ rota[1] = rota[Len(rota)]
              /\ IsPermutation(SubSeq(rota, 1, Len(rota) - 1), Len(matriz_distancias))

\* C21: the ranked list holds one <<fitness, rota>> per individual of the
\* population (position k of the list is individual f[k] of the input, f
\* one-to-one), fitness never increases along the list, individuals of
\* equal fitness keep their order of the input, the individuals of fitness
\* 0 come last, and the population itself is left as it was
C21_RankingIsStable ==
    /\ []((op \in {"roleta", "torneio"} /\ pc = "sel_loop" /\ contador = 0) =>
            LET n == Len(populacao)
            IN  /\ Len(populacao_avaliada) = n
                /\ \E f \in Perms(n) :
                      /\ \A k \in 1..n :
                            populacao_avaliada[k] =
                                <<calcular_fitness(populacao[f[k] + 1], matriz_distancias),
                                  populacao[f[k] + 1]>>
                      /\ \A k, l \in 1..n :
                            k < l =>
                               /\ ~RatLt(populacao_avaliada[k][1], populacao_avaliada[l][1])
                               /\ populacao_avaliada[k][1] = populacao_avaliada[l][1]
                                      => f[k] < f[l]
                /\ \A k, l \in 1..n :
                      (k < l /\ populacao_avaliada[k][1] = <<0, 1>>)
                          => populacao_avaliada[l][1] = <<0, 1>>)
    /\ [][pc = "eval_call" => populacao' = populacao]_vars

C21_Witness ==
    /\ pc = "sel_loop" /\ contador = 0
    /\ Len(populacao) = 3
    /\ populacao_avaliada[1][2] = populacao[2]
    /\ populacao_avaliada[2][2] = populacao[1]
    /\ populacao_avaliada[3][2] = populacao[3]
    /\ populacao[1] # populacao[3]
    /\ populacao_avaliada[2][1] = <<0, 1>>

\* calcular_custo_rota(r + [r[0]], matriz_distancias)
BlCustoFechado(r) == calcular_custo_rota(Fechar(r), matriz_distancias)

InitGuarda ==
    /\ pc = "anexar_call"
    /\ op = "anexar"
    /\ \E n \in 1..MaxCostCities :
          /\ pai1 \in Perms(n) /\ pai2 \in Perms(n)
          /\ filho1 \in Perms(n)
    /\ filho2 = <<>> /\ ponto1 = 0 /\ ponto2 = 0
    /\ EnvIdle /\ HeurIdle /\ MutIdle /\ SelIdle /\ CostIdle /\ OptIdle /\ GaIdle

\* if filho1 != pai1 and filho1 != pai2: nova_populacao.append(filho1)
\* else: nova_populacao.append(mutacao_inversao(filho1, probabilidade_mutacao=1.0))
GuardaAnexar ==
    /\ pc = "anexar_call"
    /\ \E a \in resultados_anexar(filho1, pai1, pai2) :
          /\ rota_mutada' = a.rota
          /\ pc' = IF a.exc = "none" THEN "anexar_done" ELSE "anexar_raised"
    /\ UNCHANGED <<op, envVars, heurVars, rota, probabilidade_mutacao, sorteio, pos1, pos2,
                   origem, destino, cxVars, selVars, costVars, optVars, gaVars>>

NextGuarda == GuardaAnexar

SpecGuarda == InitGuarda /\ [][NextGuarda]_vars

\* C23: a child that differs from both parents is appended as it is; for a
\* child equal to a parent the individual appended is not that child
C23_CloneIsDiversified ==
    (op = "anexar" /\ pc = "anexar_done") =>
        /\ (filho1 # pai1 /\ filho1 # pai2) => rota_mutada = filho1
        /\ (filho1 = pai1 \/ filho1 = pai2) => rota_mutada # filho1

\* C24: the population has tamanho_populacao individuals whenever it is
\* about to be evaluated; the next population never grows past that size,
\* a breeding step appends two children, or one when the first child
\* already fills it, and it replaces the population only when full
C24_PopulationKeepsItsSize ==
    /\ [](op = "ga" =>
            /\ pc = "ga_geracao" => Len(populacao) = params.tamanho_populacao
            /\ pc \in {"ga_laco", "ga_cruzar", "ga_mutar"} =>
                  /\ Len(populacao) = params.tamanho_populacao
                  /\ Len(nova_populacao) >= 1
                  /\ Len(nova_populacao) <= params.tamanho_populacao)
    /\ [][op = "ga" =>
            /\ (pc = "ga_mutar" /\ pc' = "ga_laco") =>
                  \/ Len(nova_populacao') = Len(nova_populacao) + 2
                  \/ /\ Len(nova_populacao') = Len(nova_populacao) + 1
                     /\ Len(nova_populacao') = params.tamanho_populacao
            /\ (pc = "ga_laco" /\ pc' = "ga_cruzar") =>
                  Len(nova_populacao) < params.tamanho_populacao
            /\ (pc = "ga_laco" /\ pc' = "ga_geracao") =>
                  Len(nova_populacao) = params.tamanho_populacao]_vars

C24_Witness ==
    /\ pc = "ga_geracao" /\ geracao = 2
    /\ params.tamanho_populacao = 2 /\ params.taxa_elitismo = 0
    /\ Len(populacao) = 2
    /\ populacao[1] # populacao[2]

\* C25: when the coin flip succeeds on a route of three or more distinct
\* cities, mutacao_shift takes the city of a position >= 1, puts it back at
\* a different position >= 1, and the route returned differs from the
\* input, whatever origem and destino are drawn
C25_ShiftChangesTheRoute ==
    (pc = "mut_done" /\ op = "shift" /\ Len(rota) >= 3
         /\ ~moeda_falha(sorteio, probabilidade_mutacao)) =>
        /\ origem >= 1 /\ destino >= 1 /\ origem # destino
        /\ rota_mutada # rota

\* C26: the history never decreases from one generation to the next, the
\* top-ranked individual of a generation opens the next population, and the
\* cost returned is the cost of the top-ranked individual of the last
\* generation evaluated
C26_HistoryNeverDecreases ==
    op = "ga" =>
        /\ \A k \in 1..(Len(historico_fitness) - 1) :
              ~RatLt(historico_fitness[k + 1], historico_fitness[k])
        /\ pc \in {"ga_laco", "ga_cruzar", "ga_mutar"} =>
              /\ Len(nova_populacao) >= 1
              /\ nova_populacao[1] = populacao_avaliada[1][2]
        /\ (pc = "ga_geracao" /\ geracao >= 1) =>
              populacao[1] = populacao_avaliada[1][2]
        /\ (pc = "ga_done" /\ params.num_geracoes >= 1) =>
              /\ melhor_custo_global =
                     calcular_custo_rota(Fechar(populacao_avaliada[1][2]), matriz_distancias)
              /\ FitnessDoCusto(melhor_custo_global) =
                     historico_fitness[Len(historico_fitness)]

C26_Witness ==
    /\ pc = "ga_done" /\ params.tamanho_populacao = MaxPopFinita
    /\ Len(historico_fitness) = MaxGeracoesFinita
    /\ RatLt(historico_fitness[1], historico_fitness[2])
    /\ melhor_rota_global = Fechar(populacao_avaliada[1][2])

(***************************************************************************)
(* busca_local_2opt run to its return: the loops of the function are the   *)
(* only steps, so a step that can be taken is eventually taken.            *)
(***************************************************************************)
SpecOptJusta == SpecOpt /\ WF_vars(NextOpt)

\* the cost of the route with the segment [a..b] of r reversed
CustoReversao(r, a, b) ==
    calcular_custo_rota(nova_rota_2opt(r, a, b), matriz_distancias)

\* C27: the full 2-opt search returns; it keeps the first and the last element
\* of the route in place; on return no reversal of a segment [i..j] with
\* 1 <= i < j <= len(route)-2 costs strictly less; and on the worked 4-city
\* matrix the route [0,1,2,3,0] is returned unchanged
C27_TwoOptReachesLocalOptimum ==
    /\ <>(pc = "opt_done")
    /\ [](pc \in {"opt_while", "opt_for", "opt_done"} =>
             /\ Len(melhor_rota) = Len(rota)
             /\ melhor_rota[1] = rota[1]
             /\ melhor_rota[Len(melhor_rota)] = rota[Len(rota)])
    /\ [](pc = "opt_done" =>
             \A i \in 1..(Len(melhor_rota) - 2) :
                 \A j \in (i + 1)..(Len(melhor_rota) - 2) :
                     ~(CustoReversao(melhor_rota, i, j)
                          < calcular_custo_rota(melhor_rota, matriz_distancias)))
    /\ []((pc = "opt_done" /\ matriz_distancias = MatrizExemplo
               /\ rota = <<0, 1, 2, 3, 0>>) => melhor_rota = rota)

C27_Witness ==
    /\ pc = "opt_done"
    /\ matriz_distancias = MatrizExemplo
    /\ rota = <<0, 1, 2, 3, 0>>
    /\ melhor_rota = <<0, 1, 2, 3, 0>>
    /\ CustoReversao(melhor_rota, 1, 3) = melhor_custo

=============================================================================
